---- MODULE Spec2Model ----
(***************************************************************************)
(* A model of jsop.py: JSON-style data laid out as flat records of a dbm   *)
(* file.  The dbm file, the DBMWrapper cache and the outcome of the last   *)
(* call are the state; every method of DBMWrapper, JData, JDict, JList and *)
(* JSOP is an operator that maps a store to the store it leaves behind.    *)
(*                                                                         *)
(* A store is a record [db, cache, ro, open, log, reads, err, val]: db is  *)
(* the file (encoded key |-> JSON text), cache the cache of the wrapper in *)
(* use (address |-> decoded value), ro whether that wrapper is a           *)
(* ReadOnlyDBMWrapper, open the flags of the dbm objects that are open,    *)
(* log the flags of every dbm.open() made, reads the addresses of the      *)
(* records read from the dbm, err the exception that is propagating        *)
(* ("none" when there is none) and val the value of the last expression    *)
(* evaluated.  Every operator leaves a store with a propagating exception  *)
(* as it is, which is how an exception skips the rest of a method: in a    *)
(* method of steps S1, S2, ..., Sn the store Sn is the store of the first  *)
(* step that raised, if one did.                                           *)
(***************************************************************************)
EXTENDS Integers, Sequences, FiniteSets, TLC

(***************************************************************************)
(* Bounds of the model.                                                    *)
(***************************************************************************)
\* The number of container operations of one run after init(); in SpecOpen
\* the changes of another program and the later init() calls count too, in
\* SpecIter it is the number of deletions.
MaxOps == 2
\* List indices passed by the caller range over -MaxIdx .. MaxIdx.
MaxIdx == 3
\* The calls are made on the root and on the containers nested at most
\* MaxNest deep below it.
MaxNest == 1
\* The factors of l *= k range over 0 .. MaxMul.
MaxMul == 2

(***************************************************************************)
(* Python values.  A value is a tagged pair: a JSON scalar, a native dict  *)
(* <<"map", pairs>> (pairs in insertion order, as Python dicts keep them), *)
(* a native list <<"list", items>>, or a live JObject <<"hmap", address>>  *)
(* / <<"hlist", address>>.                                                 *)
(***************************************************************************)
Null == <<"null", 0>>
Bool(b) == <<"bool", b>>
Num(n) == <<"num", n>>
Str(s) == <<"str", s>>
PyDict(pairs) == <<"map", pairs>>
PyList(items) == <<"list", items>>
EmptyMap == PyDict(<<>>)
EmptyList == PyList(<<>>)

IsDict(v) == v[1] = "map"
IsList(v) == v[1] = "list"
IsJObject(v) == v[1] \in {"hmap", "hlist"}

Digits == <<"0", "1", "2", "3", "4", "5", "6", "7", "8", "9">>

RECURSIVE IntToStr(_)
IntToStr(n) ==
    IF n < 0 THEN "-" \o IntToStr(-n)
    ELSE IF n < 10 THEN Digits[n + 1]
    ELSE IntToStr(n \div 10) \o Digits[(n % 10) + 1]

\* str(key), as JDict applies it to every key it is given.
PyStr(key) ==
    CASE key[1] = "str" -> key[2]
      [] key[1] = "num" -> IntToStr(key[2])
      [] key[1] = "bool" -> IF key[2] THEN "True" ELSE "False"
      [] OTHER -> "None"

\* Python's ==, where True == 1 and False == 0, dicts compare without
\* regard to order and values of different kinds are unequal.
NumOf(v) == IF v[1] = "bool" THEN (IF v[2] THEN 1 ELSE 0) ELSE v[2]

RECURSIVE PyEq(_, _)
PyEq(a, b) ==
    CASE a[1] \in {"num", "bool"} /\ b[1] \in {"num", "bool"} -> NumOf(a) = NumOf(b)
      [] a[1] # b[1] -> FALSE
      [] a[1] = "list" ->
            /\ Len(a[2]) = Len(b[2])
            /\ \A i \in 1..Len(a[2]) : PyEq(a[2][i], b[2][i])
      [] a[1] = "map" ->
            /\ Len(a[2]) = Len(b[2])
            /\ \A i \in 1..Len(a[2]) : \E j \in 1..Len(b[2]) :
                   a[2][i][1] = b[2][j][1] /\ PyEq(a[2][i][2], b[2][j][2])
      [] OTHER -> a = b

\* Equality of JSON values by tag: a boolean is equal to no number.
RECURSIVE JsonEq(_, _)
JsonEq(a, b) ==
    CASE a[1] # b[1] -> FALSE
      [] a[1] = "list" ->
            /\ Len(a[2]) = Len(b[2])
            /\ \A i \in 1..Len(a[2]) : JsonEq(a[2][i], b[2][i])
      [] a[1] = "map" ->
            /\ Len(a[2]) = Len(b[2])
            /\ \A i \in 1..Len(a[2]) : \E j \in 1..Len(b[2]) :
                   a[2][i][1] = b[2][j][1] /\ JsonEq(a[2][i][2], b[2][j][2])
      [] OTHER -> a = b

(***************************************************************************)
(* Python's order and list.sort().  a < b is defined on two numbers (a     *)
(* boolean is the number 1 or 0), on two strings and on two lists, which   *)
(* are compared at the first index where they are not equal; it raises a   *)
(* TypeError on every other pair.                                          *)
(***************************************************************************)
Alphabet == "-0123456789ABCDEFGHIJKLMNOPQRSTUVWXYZ_abcdefghijklmnopqrstuvwxyz"
CharCode(c) == CHOOSE i \in 1..Len(Alphabet) : SubSeq(Alphabet, i, i) = c

RECURSIVE StrLess(_, _)
StrLess(s, t) ==
    IF t = "" THEN FALSE
    ELSE IF s = "" THEN TRUE
    ELSE IF SubSeq(s, 1, 1) = SubSeq(t, 1, 1)
         THEN StrLess(SubSeq(s, 2, Len(s)), SubSeq(t, 2, Len(t)))
    ELSE CharCode(SubSeq(s, 1, 1)) < CharCode(SubSeq(t, 1, 1))

\* The first index at which two lists have items that are not equal, or 0.
RECURSIVE FirstDiffer(_, _, _)
FirstDiffer(s, t, i) ==
    IF i > Len(s) \/ i > Len(t) THEN 0
    ELSE IF ~PyEq(s[i], t[i]) THEN i
    ELSE FirstDiffer(s, t, i + 1)

\* a < b: "lt" when it is true, "ge" when it is false, "err" when it raises.
RECURSIVE PyLt(_, _)
ListLt(s, t, i) ==
    IF i > 0 THEN PyLt(s[i], t[i])
    ELSE IF Len(s) < Len(t) THEN "lt" ELSE "ge"

PyLt(a, b) ==
    CASE a[1] \in {"num", "bool"} /\ b[1] \in {"num", "bool"} ->
            IF NumOf(a) < NumOf(b) THEN "lt" ELSE "ge"
      [] a[1] = "str" /\ b[1] = "str" -> IF StrLess(a[2], b[2]) THEN "lt" ELSE "ge"
      [] a[1] = "list" /\ b[1] = "list" -> ListLt(a[2], b[2], FirstDiffer(a[2], b[2], 1))
      [] OTHER -> "err"

SeqReverse(s) == [i \in 1..Len(s) |-> s[Len(s) + 1 - i]]

\* list.sort() of CPython 3.11 on fewer than 64 items: the run that starts
\* the list is found (and reversed when it descends), and the items after
\* it are inserted one by one at the place a binary search gives.  A sort
\* is <<"ok", items>>, or <<"err", <<>>>> when a comparison it made raised.
\* CountRun: items[1..n] is a run, the value is the length of the whole
\* run, or 0.
RECURSIVE CountRun(_, _, _)
CountRun(items, n, descending) ==
    IF n = Len(items) THEN n
    ELSE LET c == PyLt(items[n + 1], items[n]) IN
         IF c = "err" THEN 0
         ELSE IF (c = "lt") = descending THEN CountRun(items, n + 1, descending)
         ELSE n

\* The number of items of acc that stay before the pivot, or -1.
RECURSIVE BinaryPos(_, _, _, _)
BinaryPos(acc, pivot, l, r) ==
    IF l >= r THEN l
    ELSE LET p == l + ((r - l) \div 2)
             c == PyLt(pivot, acc[p + 1])
         IN  IF c = "err" THEN -1
             ELSE IF c = "lt" THEN BinaryPos(acc, pivot, l, p)
             ELSE BinaryPos(acc, pivot, p + 1, r)

RECURSIVE BinarySort(_, _)
BinarySort(acc, rest) ==
    IF rest = <<>> THEN <<"ok", acc>>
    ELSE LET l == BinaryPos(acc, Head(rest), 0, Len(acc)) IN
         IF l < 0 THEN <<"err", <<>>>>
         ELSE BinarySort(SubSeq(acc, 1, l) \o <<Head(rest)>> \o SubSeq(acc, l + 1, Len(acc)),
                         Tail(rest))

\* The sort of items whose first n are a run.
SortAfterRun(items, descending, n) ==
    IF n = 0 THEN <<"err", <<>>>>
    ELSE BinarySort(IF descending THEN SeqReverse(SubSeq(items, 1, n)) ELSE SubSeq(items, 1, n),
                    SubSeq(items, n + 1, Len(items)))

\* The sort of two or more items, c being items[2] < items[1].
SortFrom(items, c) ==
    IF c = "err" THEN <<"err", <<>>>>
    ELSE SortAfterRun(items, c = "lt", CountRun(items, 2, c = "lt"))

PySort(items) ==
    IF Len(items) < 2 THEN <<"ok", items>> ELSE SortFrom(items, PyLt(items[2], items[1]))

(***************************************************************************)
(* The JSON codec of the records.  Only scalars and the two markers are    *)
(* ever encoded: json.dumps writes the text of a value and json.loads      *)
(* parses a text back.                                                     *)
(***************************************************************************)
JsonDumps(v) ==
    CASE v[1] = "null" -> "null"
      [] v[1] = "bool" -> IF v[2] THEN "true" ELSE "false"
      [] v[1] = "num" -> IntToStr(v[2])
      [] v[1] = "str" -> "\"" \o v[2] \o "\""
      [] v[1] = "map" -> "{}"
      [] OTHER -> "[]"

DigitOf(c) == CHOOSE d \in 0..9 : Digits[d + 1] = c

RECURSIVE StrToInt(_)
StrToInt(t) ==
    IF Head(t) = "-" THEN -StrToInt(Tail(t))
    ELSE IF Len(t) = 1 THEN DigitOf(t)
    ELSE 10 * StrToInt(SubSeq(t, 1, Len(t) - 1)) + DigitOf(SubSeq(t, Len(t), Len(t)))

JsonLoads(t) ==
    CASE t = "null" -> Null
      [] t = "true" -> Bool(TRUE)
      [] t = "false" -> Bool(FALSE)
      [] t = "{}" -> EmptyMap
      [] t = "[]" -> EmptyList
      [] Head(t) = "\"" -> Str(SubSeq(t, 2, Len(t) - 1))
      [] OTHER -> Num(StrToInt(t))

(***************************************************************************)
(* Stores.                                                                 *)
(***************************************************************************)
Ok(S) == S.err = "none"
Raise(S, e) == [S EXCEPT !.err = e]
Ret(S, v) == [S EXCEPT !.val = v]

\* The exceptions of jsop.py: referror(ref), the two JSOPErrors of
\* JSOP.__enter__ and the io.UnsupportedOperation of a read-only wrapper.
referror == "JSOPError: Invalid Reference"
CannotDetermine == "JSOPError: Cannot determine fromat version"
UnsupportedVersion == "JSOPError: Unsupported format version"
NotWritable == "io.UnsupportedOperation: not writable"

\* Finite maps (the dbm file, the cache): no entry, one entry set, one removed.
NoRecords == [x \in {} |-> Null]
MapPut(f, k, v) == (k :> v) @@ f
MapDel(f, k) == [x \in DOMAIN f \ {k} |-> f[x]] @@ NoRecords

(***************************************************************************)
(* SECTION I: DBMWrapper.                                                  *)
(***************************************************************************)
\* b'\xff'.join(components): the byte key, written as the components that
\* splitting it at the separator gives.  The empty address and the address
\* whose only component is the empty string have the same byte key.
BKey(key) == IF key = <<>> THEN <<"">> ELSE key

\* DBMWrapper(filename, flag).__enter__(): a new cache and an open dbm; the
\* flag "n" gives a new, empty file.  readonly: a ReadOnlyDBMWrapper.
W_enter(S, flag, readonly) ==
    [S EXCEPT !.db = IF flag = "n" THEN NoRecords ELSE @,
              !.cache = NoRecords,
              !.ro = readonly,
              !.open = Append(@, flag),
              !.log = Append(@, flag)]

\* DBMWrapper.__exit__(): the dbm of the wrapper is closed.  It is called
\* at the end of a with block, whether the block raised or not.
W_exit(S) == [S EXCEPT !.open = SubSeq(@, 1, Len(@) - 1)]

\* "bkey in self._cache": the cache is keyed by the address tuples, and bkey
\* is a bytes object, which is equal to no tuple.
TupleEqBytes(key, bkey) == FALSE
BytesInCache(cache, bkey) == \E key \in DOMAIN cache : TupleEqBytes(key, bkey)

W_getitem(S, key) ==
    IF ~Ok(S) THEN S
    ELSE IF BytesInCache(S.cache, BKey(key))
         THEN IF key \in DOMAIN S.cache THEN Ret(S, S.cache[key]) ELSE Raise(S, "KeyError")
    ELSE IF BKey(key) \notin DOMAIN S.db THEN Raise(S, "KeyError")
    ELSE LET Loaded(v) ==
                 [S EXCEPT !.cache = MapPut(S.cache, key, v), !.val = v,
                           !.reads = Append(@, key)]
         IN  Loaded(JsonLoads(S.db[BKey(key)]))

W_setitem(S, key, value) ==
    IF ~Ok(S) THEN S
    ELSE IF S.ro THEN Raise(S, NotWritable)
    ELSE [S EXCEPT !.db = MapPut(S.db, BKey(key), JsonDumps(value)),
                   !.cache = MapPut(S.cache, key, value)]

\* A faulty variant of W_delitem that leaves the entry of the cache.
W_delitem_KeepCache(S, key) ==
    IF ~Ok(S) THEN S
    ELSE IF S.ro THEN Raise(S, NotWritable)
    ELSE IF BKey(key) \notin DOMAIN S.db THEN Raise(S, "KeyError")
    ELSE [S EXCEPT !.db = MapDel(S.db, BKey(key))]

W_delitem(S, key) ==
    IF ~Ok(S) THEN S
    ELSE IF S.ro THEN Raise(S, NotWritable)
    ELSE IF BKey(key) \notin DOMAIN S.db THEN Raise(S, "KeyError")
    ELSE IF key \notin DOMAIN S.cache
         THEN [S EXCEPT !.db = MapDel(S.db, BKey(key)), !.err = "KeyError"]
    ELSE [S EXCEPT !.db = MapDel(S.db, BKey(key)), !.cache = MapDel(S.cache, key)]

W_contains(S, key) == BKey(key) \in DOMAIN S.db

(***************************************************************************)
(* SECTION II: the core.  JData, JDict and JList call one another: a JDict *)
(* reads and writes its records through JData, and JData initialises,      *)
(* exports and destroys the JDict or JList at an address.  A method calls  *)
(* another method through Call, which is defined after the methods of JSOP *)
(* and dispatches on the name of the method: Call(S, <<name, arguments>>)  *)
(* is the store that the call leaves when it is made on the store S.       *)
(***************************************************************************)
RECURSIVE Call(_, _)

\* self._db[address]
GetItem(S, address) == Call(S, <<"D_getitem", address>>)
\* self._db[address] = value
SetItem(S, address, value) == Call(S, <<"D_setitem", address, value>>)
\* del self._db[address]
DelItem(S, address) == Call(S, <<"D_delitem", address>>)
\* value.export() of a JObject
ExportOf(S, h) == Call(S, <<"Export", h>>)

\* The addresses of a map node at address A.
HeadAddr(A) == A \o <<"n">>
TailAddr(A) == A \o <<"p">>
SizeAddr(A) == A \o <<"s">>
\* A faulty variant of KAddr that puts the value of a key at the address of
\* the node followed by the key alone.
KAddr_Flat(A, key, field) ==
    IF field = "v" THEN A \o <<key>> ELSE A \o <<"k", key, field>>

KAddr(A, key, field) == A \o <<"k", key, field>>

(***************************************************************************)
(* JData: reading.                                                         *)
(***************************************************************************)
D_getitem(S, address) ==
    IF ~Ok(S) THEN S
    ELSE LET R == W_getitem(S, address) IN
         IF ~Ok(R) THEN Raise(R, referror)
         ELSE IF IsDict(R.val) THEN Ret(R, <<"hmap", address>>)
         ELSE IF IsList(R.val) THEN Ret(R, <<"hlist", address>>)
         ELSE R

D_contains(S, address) == W_contains(S, address)

(***************************************************************************)
(* JDict at address A.                                                     *)
(***************************************************************************)
M_getitem(S, A, key) == GetItem(S, KAddr(A, PyStr(key), "v"))

M_contains(S, A, key) == D_contains(S, KAddr(A, PyStr(key), "v"))

M_len(S, A) == GetItem(S, SizeAddr(A))

\* Faulty variants of M_setitem: one that does not make the old tail point
\* to a new key, and one that links a key again when it is already there.
M_setitem_NoNextLink(S, A, key0, value) ==
    LET key == PyStr(key0)
        S1 == GetItem(S, TailAddr(A))
        S2 == SetItem(S1, KAddr(A, key, "p"), S1.val)
        S3 == SetItem(S2, KAddr(A, key, "n"), Null)
        S4 == SetItem(S3, IF S1.val # Null THEN KAddr(A, key, "n") ELSE HeadAddr(A),
                      IF S1.val # Null THEN Null ELSE Str(key))
        S5 == SetItem(S4, TailAddr(A), Str(key))
        S6 == GetItem(S5, SizeAddr(A))
        S7 == SetItem(S6, SizeAddr(A), Num(S6.val[2] + 1))
    IN  IF M_contains(S, A, key0) THEN SetItem(S, KAddr(A, key, "v"), value)
        ELSE SetItem(S7, KAddr(A, key, "v"), value)

M_setitem_AlwaysLink(S, A, key0, value) ==
    LET key == PyStr(key0)
        S1 == GetItem(S, TailAddr(A))
        S2 == SetItem(S1, KAddr(A, key, "p"), S1.val)
        S3 == SetItem(S2, KAddr(A, key, "n"), Null)
        S4 == SetItem(S3, IF S1.val # Null THEN KAddr(A, S1.val[2], "n") ELSE HeadAddr(A),
                      Str(key))
        S5 == SetItem(S4, TailAddr(A), Str(key))
        S6 == GetItem(S5, SizeAddr(A))
        S7 == SetItem(S6, SizeAddr(A), Num(S6.val[2] + 1))
    IN  SetItem(S7, KAddr(A, key, "v"), value)

\* A faulty variant of M_setitem that takes a key as it is given.
M_setitem_NoStr(S, A, key0, value) ==
    LET key == IF key0[1] = "num" THEN "#" \o IntToStr(key0[2]) ELSE PyStr(key0)
        S1 == GetItem(S, TailAddr(A))
        S2 == SetItem(S1, KAddr(A, key, "p"), S1.val)
        S3 == SetItem(S2, KAddr(A, key, "n"), Null)
        S4 == SetItem(S3, IF S1.val # Null THEN KAddr(A, S1.val[2], "n") ELSE HeadAddr(A),
                      Str(key))
        S5 == SetItem(S4, TailAddr(A), Str(key))
        S6 == GetItem(S5, SizeAddr(A))
        S7 == SetItem(S6, SizeAddr(A), Num(S6.val[2] + 1))
    IN  IF W_contains(S, KAddr(A, key, "v")) THEN SetItem(S, KAddr(A, key, "v"), value)
        ELSE SetItem(S7, KAddr(A, key, "v"), value)

M_setitem(S, A, key0, value) ==
    LET key == PyStr(key0)
        S1 == GetItem(S, TailAddr(A))
        S2 == SetItem(S1, KAddr(A, key, "p"), S1.val)
        S3 == SetItem(S2, KAddr(A, key, "n"), Null)
        S4 == SetItem(S3, IF S1.val # Null THEN KAddr(A, S1.val[2], "n") ELSE HeadAddr(A),
                      Str(key))
        S5 == SetItem(S4, TailAddr(A), Str(key))
        S6 == GetItem(S5, SizeAddr(A))
        S7 == SetItem(S6, SizeAddr(A), Num(S6.val[2] + 1))
        raised ==
            \/ S1.err # "none"
            \/ S2.err # "none"
            \/ S3.err # "none"
            \/ S4.err # "none"
            \/ S5.err # "none"
            \/ S6.err # "none"
            \/ S7.err # "none"
    IN  IF M_contains(S, A, key0) THEN SetItem(S, KAddr(A, key, "v"), value)
        ELSE IF raised THEN S7
        ELSE SetItem(S7, KAddr(A, key, "v"), value)

RECURSIVE M_initLoop(_, _, _, _)
M_initLoop(S, A, pairs, i) ==
    IF ~Ok(S) \/ i > Len(pairs) THEN S
    ELSE LET S1 == Call(S, <<"M_setitem", A, Str(pairs[i][1]), pairs[i][2]>>)
         IN  IF S1.err # "none" THEN S1 ELSE M_initLoop(S1, A, pairs, i + 1)

M_init(S, A, value) ==
    LET S1 == SetItem(S, TailAddr(A), Null)
        S2 == SetItem(S1, HeadAddr(A), Null)
        S3 == SetItem(S2, SizeAddr(A), Num(0))
    IN  IF S1.err # "none" \/ S2.err # "none" \/ S3.err # "none" THEN S3
        ELSE M_initLoop(S3, A, value[2], 1)

\* Faulty variants of M_delitem: one that leaves the prev link of the
\* successor (or the tail) as it was, and one that leaves the size as it was.
M_delitem_NoPrevLink(S, A, key0) ==
    IF ~M_contains(S, A, key0) THEN Raise(S, "KeyError")
    ELSE LET key == PyStr(key0)
             S1 == GetItem(S, KAddr(A, key, "p"))
             S2 == GetItem(S1, KAddr(A, key, "n"))
             S3 == DelItem(S2, KAddr(A, key, "v"))
             S4 == DelItem(S3, KAddr(A, key, "p"))
             S5 == DelItem(S4, KAddr(A, key, "n"))
             S6 == SetItem(S5, IF S1.val # Null THEN KAddr(A, S1.val[2], "n") ELSE HeadAddr(A),
                           S2.val)
             S8 == GetItem(S6, SizeAddr(A))
         IN  IF S8.err # "none" THEN S8
             ELSE SetItem(S8, SizeAddr(A), Num(S8.val[2] - 1))

M_delitem_KeepSize(S, A, key0) ==
    IF ~M_contains(S, A, key0) THEN Raise(S, "KeyError")
    ELSE LET key == PyStr(key0)
             S1 == GetItem(S, KAddr(A, key, "p"))
             S2 == GetItem(S1, KAddr(A, key, "n"))
             S3 == DelItem(S2, KAddr(A, key, "v"))
             S4 == DelItem(S3, KAddr(A, key, "p"))
             S5 == DelItem(S4, KAddr(A, key, "n"))
             S6 == SetItem(S5, IF S1.val # Null THEN KAddr(A, S1.val[2], "n") ELSE HeadAddr(A),
                           S2.val)
         IN  SetItem(S6, IF S2.val # Null THEN KAddr(A, S2.val[2], "p") ELSE TailAddr(A),
                     S1.val)

M_delitem(S, A, key0) ==
    IF ~M_contains(S, A, key0) THEN Raise(S, "KeyError")
    ELSE LET key == PyStr(key0)
             S1 == GetItem(S, KAddr(A, key, "p"))
             S2 == GetItem(S1, KAddr(A, key, "n"))
             S3 == DelItem(S2, KAddr(A, key, "v"))
             S4 == DelItem(S3, KAddr(A, key, "p"))
             S5 == DelItem(S4, KAddr(A, key, "n"))
             S6 == SetItem(S5, IF S1.val # Null THEN KAddr(A, S1.val[2], "n") ELSE HeadAddr(A),
                           S2.val)
             S7 == SetItem(S6, IF S2.val # Null THEN KAddr(A, S2.val[2], "p") ELSE TailAddr(A),
                           S1.val)
             S8 == GetItem(S7, SizeAddr(A))
         IN  IF \/ S3.err # "none"
                \/ S4.err # "none"
                \/ S5.err # "none"
                \/ S6.err # "none"
                \/ S7.err # "none"
                \/ S8.err # "none"
             THEN S8
             ELSE SetItem(S8, SizeAddr(A), Num(S8.val[2] - 1))

\* __iter__ reads the successor of a key before it yields the key; the loops
\* below are the loops of the callers, with the generator's reads in place.
RECURSIVE M_keysLoop(_, _, _, _)
M_keysLoop(S, A, key, acc) ==
    IF ~Ok(S) THEN S
    ELSE IF key = Null THEN Ret(S, PyList(acc))
    ELSE LET S1 == GetItem(S, KAddr(A, key[2], "n"))
         IN  M_keysLoop(S1, A, S1.val, Append(acc, key))

M_keys(S, A) ==
    LET S1 == GetItem(S, HeadAddr(A)) IN M_keysLoop(S1, A, S1.val, <<>>)

\* A faulty variant of M_iterNext that reads the successor of a key when it
\* is resumed after the yield of the key.
M_iterNext_Late(S, A, started, key, next_key) ==
    LET S1 == GetItem(S, IF started THEN KAddr(A, key[2], "n") ELSE HeadAddr(A))
    IN  IF S1.err # "none" THEN S1
        ELSE IF S1.val = Null THEN Raise(S1, "StopIteration")
        ELSE Ret(S1, <<"tuple", <<S1.val, Null>> >>)

\* next(g) on the generator g of __iter__: it runs from its start (started
\* is false) or from its yield, where it holds the key it yielded and
\* next_key, up to its next yield or its end.  The value is the pair of the
\* key yielded and the next_key held.
M_iterNext(S, A, started, key, next_key) ==
    LET S1 == IF started THEN Ret(S, next_key) ELSE GetItem(S, HeadAddr(A))
        S2 == IF S1.err = "none" /\ S1.val = Null THEN Raise(S1, "StopIteration")
              ELSE GetItem(S1, KAddr(A, S1.val[2], "n"))
    IN  IF S2.err # "none" THEN S2 ELSE Ret(S2, <<"tuple", <<S1.val, S2.val>> >>)

\* A faulty variant of M_clearLoop that deletes the head entry and stops.
M_clearLoop_HeadOnly(S, A, key) ==
    IF ~Ok(S) \/ key = Null THEN S
    ELSE Call(GetItem(S, KAddr(A, key[2], "n")), <<"M_delitem", A, key>>)

RECURSIVE M_clearLoop(_, _, _)
M_clearLoop(S, A, key) ==
    IF ~Ok(S) \/ key = Null THEN S
    ELSE LET S1 == GetItem(S, KAddr(A, key[2], "n"))
             S2 == Call(S1, <<"M_delitem", A, key>>)
         IN  IF S2.err # "none" THEN S2
             ELSE M_clearLoop(S2, A, S1.val)

M_clear(S, A) ==
    LET S1 == GetItem(S, HeadAddr(A)) IN M_clearLoop(S1, A, S1.val)

M_get(S, A, key0, default) ==
    IF M_contains(S, A, key0) THEN M_getitem(S, A, Str(PyStr(key0)))
    ELSE Ret(S, default)

\* pop(k, *args): args is the empty tuple, or the default.
M_pop(S, A, k0, args) ==
    IF M_contains(S, A, k0)
    THEN LET S1 == M_getitem(S, A, Str(PyStr(k0)))
             S2 == IF S1.err = "none" /\ IsJObject(S1.val) THEN ExportOf(S1, S1.val) ELSE S1
             S3 == Call(S2, <<"M_delitem", A, Str(PyStr(k0))>>)
         IN  IF S2.err # "none" \/ S3.err # "none" THEN S3 ELSE Ret(S3, S2.val)
    ELSE IF Len(args) = 1 THEN Ret(S, args[1])
    ELSE Raise(S, "KeyError")

\* A faulty variant of M_popitem that pops the tail entry.
M_popitem_Tail(S, A) ==
    LET S0 == M_len(S, A)
        S1 == GetItem(S0, TailAddr(A))
        S2 == Call(S1, <<"M_pop", A, S1.val, <<>>>>)
    IN  IF S0.err = "none" /\ S0.val = Num(0) THEN Raise(S0, "KeyError")
        ELSE IF S1.err # "none" \/ S2.err # "none" THEN S2
        ELSE Ret(S2, <<"tuple", <<S1.val, S2.val>>>>)

\* popitem(): next(iter(self)) runs __iter__ up to its first yield, or to
\* its end, which is a StopIteration.
M_popitem(S, A) ==
    LET S0 == M_len(S, A)
        S1 == GetItem(S0, HeadAddr(A))
        S2 == IF S1.err = "none" /\ S1.val = Null THEN Raise(S1, "StopIteration")
              ELSE GetItem(S1, KAddr(A, S1.val[2], "n"))
        S3 == Call(S2, <<"M_pop", A, S1.val, <<>>>>)
    IN  IF S0.err = "none" /\ S0.val = Num(0) THEN Raise(S0, "KeyError")
        ELSE IF S1.err # "none" \/ S2.err # "none" \/ S3.err # "none" THEN S3
        ELSE Ret(S3, <<"tuple", <<S1.val, S3.val>>>>)

M_setdefault(S, A, key0, default) ==
    LET S1 == IF M_contains(S, A, key0) THEN S
              ELSE Call(S, <<"M_setitem", A, Str(PyStr(key0)), default>>)
    IN  IF S1.err # "none" THEN S1 ELSE M_getitem(S1, A, Str(PyStr(key0)))

\* other[k] of update(): an entry of a native dict, or an item of a JDict.
M_updateValue(S, other, k) ==
    IF other[1] = "hmap" THEN M_getitem(S, other[2], k)
    ELSE Ret(S, other[2][CHOOSE i \in 1..Len(other[2]) : other[2][i][1] = k[2]][2])

\* for k in other.keys(): self[k] = other[k]
RECURSIVE M_updateKeysLoop(_, _, _, _, _)
M_updateKeysLoop(S, A, other, keys, i) ==
    IF ~Ok(S) \/ i > Len(keys) THEN S
    ELSE LET S1 == M_updateValue(S, other, keys[i])
             S2 == Call(S1, <<"M_setitem", A, keys[i], S1.val>>)
         IN  IF S2.err # "none" THEN S2
             ELSE M_updateKeysLoop(S2, A, other, keys, i + 1)

\* for (k, v) in other: self[k] = v
RECURSIVE M_updatePairsLoop(_, _, _, _)
M_updatePairsLoop(S, A, pairs, i) ==
    IF ~Ok(S) \/ i > Len(pairs) THEN S
    ELSE LET S1 == Call(S, <<"M_setitem", A, pairs[i][2][1], pairs[i][2][2]>>)
         IN  IF S1.err # "none" THEN S1
             ELSE M_updatePairsLoop(S1, A, pairs, i + 1)

\* update(other, **kw): other is None, a native dict, a JDict (whose
\* keys() is the list of its keys, made before the first assignment) or a
\* native list of pairs; kw is the native dict of the keyword arguments.
M_update(S, A, other, kw) ==
    LET S0 == IF other[1] = "hmap" THEN Call(S, <<"M_keys", other[2]>>)
              ELSE IF IsDict(other)
                   THEN Ret(S, PyList([i \in 1..Len(other[2]) |-> Str(other[2][i][1])]))
              ELSE S
        S1 == IF other = Null THEN S
              ELSE IF S0.err # "none" THEN S0
              ELSE IF IsList(other) THEN M_updatePairsLoop(S0, A, other[2], 1)
              ELSE M_updateKeysLoop(S0, A, other, S0.val[2], 1)
    IN  IF S1.err # "none" \/ Len(kw[2]) = 0 THEN S1
        ELSE Call(S1, <<"M_update", A, kw, EmptyMap>>)

RECURSIVE M_exportLoop(_, _, _, _)
M_exportLoop(S, A, key, acc) ==
    IF ~Ok(S) THEN S
    ELSE IF key = Null THEN Ret(S, PyDict(acc))
    ELSE LET S1 == GetItem(S, KAddr(A, key[2], "n"))
             S2 == M_getitem(S1, A, key)
             S3 == IF S2.err = "none" /\ IsJObject(S2.val)
                   THEN ExportOf(M_getitem(S2, A, key), S2.val)
                   ELSE M_getitem(S2, A, key)
         IN  IF S3.err # "none" THEN S3
             ELSE M_exportLoop(S3, A, S1.val, Append(acc, <<key[2], S3.val>>))

M_export(S, A) ==
    LET S1 == GetItem(S, HeadAddr(A)) IN M_exportLoop(S1, A, S1.val, <<>>)

\* A faulty variant of M_destroy that leaves the size record.
M_destroy_KeepSize(S, A) ==
    LET S1 == Call(S, <<"M_clear", A>>)
        S2 == DelItem(S1, HeadAddr(A))
    IN  IF S1.err # "none" \/ S2.err # "none" THEN S2
        ELSE DelItem(S2, TailAddr(A))

M_destroy(S, A) ==
    LET S1 == Call(S, <<"M_clear", A>>)
        S2 == DelItem(S1, HeadAddr(A))
        S3 == DelItem(S2, TailAddr(A))
    IN  IF S1.err # "none" \/ S2.err # "none" \/ S3.err # "none" THEN S3
        ELSE DelItem(S3, SizeAddr(A))

(***************************************************************************)
(* JList at address A; its _dict is the JDict at the same address.         *)
(***************************************************************************)
L_len(S, A) == M_len(S, A)

L_append(S, A, item) ==
    LET S0 == L_len(S, A) IN
    IF ~Ok(S0) THEN S0 ELSE Call(S0, <<"M_setitem", A, Num(S0.val[2]), item>>)

RECURSIVE L_initLoop(_, _, _, _)
L_initLoop(S, A, items, i) ==
    IF ~Ok(S) \/ i > Len(items) THEN S
    ELSE LET S1 == Call(S, <<"L_append", A, items[i]>>)
         IN  IF S1.err # "none" THEN S1 ELSE L_initLoop(S1, A, items, i + 1)

L_init(S, A, value) ==
    LET S1 == Call(S, <<"M_init", A, EmptyMap>>)
    IN  IF S1.err # "none" THEN S1 ELSE L_initLoop(S1, A, value[2], 1)

L_getitem(S, A, index) ==
    LET S0 == L_len(S, A) IN
    IF ~Ok(S0) THEN S0
    ELSE IF index \notin -S0.val[2] .. S0.val[2] - 1 THEN Raise(S0, "IndexError")
    ELSE IF index < 0 THEN Call(S0, <<"L_getitem", A, S0.val[2] + index>>)
    ELSE M_getitem(S0, A, Num(index))

\* A faulty variant of L_setitem that does not check the index.
L_setitem_NoRange(S, A, index, value) ==
    LET S0 == L_len(S, A) IN
    IF ~Ok(S0) THEN S0 ELSE Call(S0, <<"M_setitem", A, Num(index), value>>)

\* A negative index is stored twice: at len + index by the recursive call, and
\* then under the key str(index) by the statement that follows the elif.
L_setitem(S, A, index, value) ==
    LET S0 == L_len(S, A)
        S1 == IF index < 0 THEN Call(S0, <<"L_setitem", A, S0.val[2] + index, value>>) ELSE S0
    IN  IF ~Ok(S0) THEN S0
        ELSE IF index \notin -S0.val[2] .. S0.val[2] - 1 THEN Raise(S0, "IndexError")
        ELSE IF S1.err # "none" THEN S1
        ELSE Call(S1, <<"M_setitem", A, Num(index), value>>)

L_pop(S, A) ==
    LET S0 == L_len(S, A) IN
    IF ~Ok(S0) THEN S0
    ELSE IF S0.val[2] = 0 THEN Raise(S0, "IndexError")
    ELSE Call(S0, <<"M_pop", A, Num(S0.val[2] - 1), <<>>>>)

\* for i in range(index, len(self) - 1): self[i] = self[i + 1]
RECURSIVE L_shiftLeft(_, _, _, _)
L_shiftLeft(S, A, i, stop) ==
    IF ~Ok(S) \/ i >= stop THEN S
    ELSE LET S1 == Call(S, <<"L_getitem", A, i + 1>>)
             S2 == Call(S1, <<"L_setitem", A, i, S1.val>>)
         IN  IF S2.err # "none" THEN S2
             ELSE L_shiftLeft(S2, A, i + 1, stop)

\* A faulty variant of L_delitem that drops the last element whatever the
\* index is.
L_delitem_NoShift(S, A, index) ==
    LET S0 == L_len(S, A) IN
    IF ~Ok(S0) THEN S0
    ELSE IF index >= S0.val[2] \/ index < -S0.val[2] THEN Raise(S0, "IndexError")
    ELSE Call(S0, <<"L_pop", A>>)

L_delitem(S, A, index) ==
    LET S0 == L_len(S, A)
        S1 == L_shiftLeft(S0, A, index, S0.val[2] - 1)
    IN  IF ~Ok(S0) THEN S0
        ELSE IF index >= S0.val[2] \/ index < -S0.val[2] THEN Raise(S0, "IndexError")
        ELSE IF index < 0 THEN Call(S0, <<"L_delitem", A, S0.val[2] + index>>)
        ELSE IF S1.err # "none" THEN S1
        ELSE Call(S1, <<"L_pop", A>>)

\* for i in range(len(self) - 1, index, -1): self[i] = self[i - 1]
RECURSIVE L_shiftRight(_, _, _, _)
L_shiftRight(S, A, i, index) ==
    IF ~Ok(S) \/ i <= index THEN S
    ELSE LET S1 == Call(S, <<"L_getitem", A, i - 1>>)
             S2 == Call(S1, <<"L_setitem", A, i, S1.val>>)
         IN  IF S2.err # "none" THEN S2
             ELSE L_shiftRight(S2, A, i - 1, index)

L_insert(S, A, index, value) ==
    LET S0 == L_len(S, A)
        S1 == Call(S0, <<"L_append", A, Null>>)
        S2 == L_len(S1, A)
        S3 == L_shiftRight(S2, A, S2.val[2] - 1, index)
    IN  IF ~Ok(S0) THEN S0
        ELSE IF index >= S0.val[2] THEN Call(S0, <<"L_append", A, value>>)
        ELSE IF index < -S0.val[2] THEN Call(S0, <<"L_insert", A, 0, value>>)
        ELSE IF index < 0 THEN Call(S0, <<"L_insert", A, S0.val[2] + index, value>>)
        ELSE IF S1.err # "none" \/ S2.err # "none" \/ S3.err # "none" THEN S3
        ELSE Call(S3, <<"L_setitem", A, index, value>>)

\* A faulty variant of PyEquals that compares by tag, so that True is not 1.
PyEquals_ByTag(S, a, b) ==
    LET S1 == IF IsJObject(a) THEN ExportOf(S, a) ELSE Ret(S, a)
        S2 == IF IsJObject(b) THEN ExportOf(S1, b) ELSE Ret(S1, b)
    IN  IF S1.err # "none" \/ S2.err # "none" THEN S2
        ELSE Ret(S2, Bool(JsonEq(S1.val, S2.val)))

\* a == b of Python: JObject.__eq__ exports the JObjects (on either side,
\* the left one first) and compares the native values.
PyEquals(S, a, b) ==
    LET S1 == IF IsJObject(a) THEN ExportOf(S, a) ELSE Ret(S, a)
        S2 == IF IsJObject(b) THEN ExportOf(S1, b) ELSE Ret(S1, b)
    IN  IF S1.err # "none" \/ S2.err # "none" THEN S2
        ELSE Ret(S2, Bool(PyEq(S1.val, S2.val)))

RECURSIVE L_removeLoop(_, _, _, _, _)
L_removeLoop(S, A, item, i, n) ==
    IF ~Ok(S) THEN S
    ELSE IF i >= n THEN Raise(S, "ValueError")
    ELSE LET S1 == Call(S, <<"L_getitem", A, i>>)
             S2 == Call(S1, <<"PyEquals", S1.val, item>>)
         IN  IF S2.err # "none" THEN S2
             ELSE IF S2.val[2] THEN Call(S2, <<"L_delitem", A, i>>)
             ELSE L_removeLoop(S2, A, item, i + 1, n)

L_remove(S, A, item) ==
    LET S0 == L_len(S, A) IN
    IF ~Ok(S0) THEN S0 ELSE L_removeLoop(S0, A, item, 0, S0.val[2])

\* for i in range(start, min(len(self), stop))
RECURSIVE L_indexLoop(_, _, _, _, _)
L_indexLoop(S, A, value, i, n) ==
    IF ~Ok(S) THEN S
    ELSE IF i >= n THEN Raise(S, "ValueError")
    ELSE LET S1 == Call(S, <<"L_getitem", A, i>>)
             S2 == Call(S1, <<"PyEquals", S1.val, value>>)
         IN  IF S2.err # "none" THEN S2
             ELSE IF S2.val[2] THEN Ret(S2, Num(i))
             ELSE L_indexLoop(S2, A, value, i + 1, n)

L_index(S, A, value, start, stop) ==
    LET S0 == L_len(S, A) IN
    IF ~Ok(S0) THEN S0
    ELSE L_indexLoop(S0, A, value, start, IF S0.val[2] < stop THEN S0.val[2] ELSE stop)

L_clear(S, A) == Call(S, <<"M_clear", A>>)

\* for item in self (for i in range(len(self)): yield self[i]), with what
\* export() does with an item.
RECURSIVE L_exportLoop(_, _, _, _, _)
L_exportLoop(S, A, i, n, acc) ==
    IF ~Ok(S) THEN S
    ELSE IF i >= n THEN Ret(S, PyList(acc))
    ELSE LET S1 == Call(S, <<"L_getitem", A, i>>)
             S2 == IF S1.err = "none" /\ IsJObject(S1.val) THEN ExportOf(S1, S1.val) ELSE S1
         IN  IF S2.err # "none" THEN S2
             ELSE L_exportLoop(S2, A, i + 1, n, Append(acc, S2.val))

L_export(S, A) ==
    LET S0 == L_len(S, A) IN
    IF ~Ok(S0) THEN S0 ELSE L_exportLoop(S0, A, 0, S0.val[2], <<>>)

\* list(self): the items that __iter__ yields, a JObject for a container.
RECURSIVE L_listLoop(_, _, _, _, _)
L_listLoop(S, A, i, n, acc) ==
    IF ~Ok(S) THEN S
    ELSE IF i >= n THEN Ret(S, PyList(acc))
    ELSE LET S1 == Call(S, <<"L_getitem", A, i>>)
         IN  IF S1.err # "none" THEN S1
             ELSE L_listLoop(S1, A, i + 1, n, Append(acc, S1.val))

L_list(S, A) ==
    LET S0 == L_len(S, A) IN
    IF ~Ok(S0) THEN S0 ELSE L_listLoop(S0, A, 0, S0.val[2], <<>>)

\* items * n of a native list: the empty list when n is not positive.
RECURSIVE Repeat(_, _)
Repeat(items, n) == IF n <= 0 THEN <<>> ELSE items \o Repeat(items, n - 1)

L_mul(S, A, other) ==
    LET S1 == L_list(S, A) IN
    IF ~Ok(S1) THEN S1 ELSE Ret(S1, PyList(Repeat(S1.val[2], other)))

RECURSIVE L_extendLoop(_, _, _, _)
L_extendLoop(S, A, items, i) ==
    IF ~Ok(S) \/ i > Len(items) THEN S
    ELSE LET S1 == Call(S, <<"L_append", A, items[i]>>)
         IN  IF S1.err # "none" THEN S1 ELSE L_extendLoop(S1, A, items, i + 1)

\* for item in other, with other the JList at B: __iter__ takes the length
\* once, when it starts, and reads the item at i when it is asked for it.
RECURSIVE L_extendIter(_, _, _, _, _)
L_extendIter(S, A, B, i, n) ==
    IF ~Ok(S) \/ i >= n THEN S
    ELSE LET S1 == Call(S, <<"L_getitem", B, i>>)
             S2 == Call(S1, <<"L_append", A, S1.val>>)
         IN  IF S2.err # "none" THEN S2 ELSE L_extendIter(S2, A, B, i + 1, n)

\* A faulty variant of L_extend that goes on to the item it has appended
\* first, as a loop that takes the length again at every step would.
L_extend_Rescan(S, A, other) ==
    IF other[1] = "hlist"
    THEN LET S0 == L_len(S, other[2]) IN
         IF ~Ok(S0) THEN S0
         ELSE L_extendIter(S0, A, other[2], 0,
                           IF other[2] = A /\ S0.val[2] > 0 THEN S0.val[2] + 1 ELSE S0.val[2])
    ELSE L_extendLoop(S, A, other[2], 1)

\* extend(other): other is a native list or a JList.
L_extend(S, A, other) ==
    IF other[1] = "hlist"
    THEN LET S0 == L_len(S, other[2]) IN
         IF ~Ok(S0) THEN S0 ELSE L_extendIter(S0, A, other[2], 0, S0.val[2])
    ELSE L_extendLoop(S, A, other[2], 1)

\* self += other: the value is self.
L_iadd(S, A, other) ==
    LET S1 == Call(S, <<"L_extend", A, other>>)
    IN  IF S1.err # "none" THEN S1 ELSE Ret(S1, <<"hlist", A>>)

\* self *= other
L_imul(S, A, other) ==
    LET S1 == Call(S, <<"L_mul", A, other - 1>>)
    IN  IF S1.err # "none" THEN S1 ELSE Call(S1, <<"L_extend", A, S1.val>>)

\* exported.sort(), self.clear() and self.extend(exported) of sort().
L_sortStore(S, A, sorted) ==
    IF sorted[1] = "err" THEN Raise(S, "TypeError")
    ELSE Call(Call(S, <<"L_clear", A>>), <<"L_extend", A, PyList(sorted[2])>>)

\* sort() takes any arguments and does not use them.
L_sort(S, A) ==
    LET S1 == Call(S, <<"L_export", A>>)
    IN  IF S1.err # "none" THEN S1 ELSE L_sortStore(S1, A, PySort(S1.val[2]))

L_reverse(S, A) ==
    LET S1 == Call(S, <<"L_export", A>>)
        S2 == Call(S1, <<"L_clear", A>>)
    IN  IF S1.err # "none" \/ S2.err # "none" THEN S2
        ELSE Call(S2, <<"L_extend", A, PyList(SeqReverse(S1.val[2]))>>)

L_destroy(S, A) == Call(S, <<"M_destroy", A>>)

(***************************************************************************)
(* JObject: the methods of the JDict or JList that a JObject value is.     *)
(***************************************************************************)
Export(S, h) ==
    IF h[1] = "hmap" THEN Call(S, <<"M_export", h[2]>>) ELSE Call(S, <<"L_export", h[2]>>)

Destroy(S, h) ==
    IF h[1] = "hmap" THEN Call(S, <<"M_destroy", h[2]>>) ELSE Call(S, <<"L_destroy", h[2]>>)

\* The names that the classes JDict and JList define, with those of the
\* class JObject that they extend.
JObjectNames == {"_init", "_destroy", "export", "__eq__"}
JDictNames ==
    JObjectNames \cup
    {"__init__", "__getitem__", "__setitem__", "__delitem__", "__contains__", "__iter__",
     "__len__", "keys", "clear", "update", "get", "pop", "popitem", "setdefault", "values",
     "items", "copy"}
JListNames ==
    JObjectNames \cup
    {"__init__", "__getitem__", "__setitem__", "__len__", "__iter__", "__reversed__",
     "__add__", "__radd__", "__iadd__", "__mul__", "__rmul__", "__imul__", "__delitem__",
     "insert", "append", "pop", "remove", "__contains__", "sort", "reverse", "index",
     "count", "copy", "extend", "clear"}

\* h.name of Python, for a JObject h: the method of the class of h that has
\* the name, or an AttributeError when the class has none.
GetAttr(S, h, name) ==
    IF name \in (IF h[1] = "hmap" THEN JDictNames ELSE JListNames)
    THEN Ret(S, <<"method", h, name>>)
    ELSE Raise(S, "AttributeError")

(***************************************************************************)
(* JData: writing.                                                         *)
(***************************************************************************)
D_delitem(S, address) ==
    LET S1 == IF W_contains(S, address) THEN GetItem(S, address) ELSE S
        S2 == IF W_contains(S, address) /\ S1.err = "none" /\ IsJObject(S1.val)
              THEN Call(GetItem(S1, address), <<"Destroy", S1.val>>)
              ELSE S1
        Deleted(S3) == IF S3.err = "none" THEN S3 ELSE Raise(S3, referror)
    IN  IF S2.err # "none" THEN S2 ELSE Deleted(W_delitem(S2, address))

\* Faulty variants of D_setitem: one that writes over a container without
\* destroying it first, and one that stores the marker of a JObject it is
\* given without its contents.
D_setitem_NoDestroy(S, address, value) ==
    LET S1 == IF IsJObject(value) THEN ExportOf(S, value) ELSE Ret(S, value)
    IN  IF S1.err # "none" THEN S1
        ELSE IF IsDict(S1.val)
             THEN Call(W_setitem(S1, address, EmptyMap), <<"M_init", address, S1.val>>)
        ELSE IF IsList(S1.val)
             THEN Call(W_setitem(S1, address, EmptyList), <<"L_init", address, S1.val>>)
        ELSE W_setitem(S1, address, S1.val)

D_setitem_MarkerOnly(S, address, value) ==
    LET S1 == IF IsJObject(value) THEN ExportOf(S, value) ELSE Ret(S, value)
        v == IF IsJObject(value)
             THEN (IF IsDict(S1.val) THEN EmptyMap ELSE EmptyList)
             ELSE S1.val
        S2 == IF W_contains(S1, address) THEN DelItem(S1, address) ELSE S1
    IN  IF S1.err # "none" \/ S2.err # "none" THEN S2
        ELSE IF IsDict(v)
             THEN Call(W_setitem(S2, address, EmptyMap), <<"M_init", address, v>>)
        ELSE IF IsList(v)
             THEN Call(W_setitem(S2, address, EmptyList), <<"L_init", address, v>>)
        ELSE W_setitem(S2, address, v)

D_setitem(S, address, value) ==
    LET S1 == IF IsJObject(value) THEN ExportOf(S, value) ELSE Ret(S, value)
        S2 == IF W_contains(S1, address) THEN DelItem(S1, address) ELSE S1
    IN  IF S1.err # "none" \/ S2.err # "none" THEN S2
        ELSE IF IsDict(S1.val)
             THEN Call(W_setitem(S2, address, EmptyMap), <<"M_init", address, S1.val>>)
        ELSE IF IsList(S1.val)
             THEN Call(W_setitem(S2, address, EmptyList), <<"L_init", address, S1.val>>)
        ELSE W_setitem(S2, address, S1.val)

(***************************************************************************)
(* SECTION III: the API (class JSOP).                                      *)
(***************************************************************************)
FORMAT_NAME == "JSOP"
FORMAT_VERSION_MAJOR == 1
FORMAT_VERSION_MINOR == 0

NameAddr == <<"m", "format-name">>
MajorAddr == <<"m", "format-version-major">>
MinorAddr == <<"m", "format-version-minor">>
RootAddr == <<>>

\* The file with no dbm object open on it, and the dbm objects a caller
\* already holds open.
Closed(file, held) ==
    [db |-> file, cache |-> NoRecords, ro |-> FALSE, open |-> held, log |-> <<>>,
     reads |-> <<>>, err |-> "none", val |-> Null]

\* A DBMWrapper that has just been entered on a file, to read.
Wrapper(file) == W_enter(Closed(file, <<>>), "r", FALSE)

\* JSOP(filename, readonly).init(obj): the with block leaves through
\* DBMWrapper.__exit__ whether it raised or not.
JSOP_init(S, readonly, obj) ==
    LET S1 == SetItem(W_enter(S, "n", FALSE), NameAddr, Str(FORMAT_NAME))
        S2 == SetItem(S1, MajorAddr, Num(FORMAT_VERSION_MAJOR))
        S3 == SetItem(S2, MinorAddr, Num(FORMAT_VERSION_MINOR))
    IN  IF readonly THEN Raise(S, NotWritable)
        ELSE W_exit(SetItem(S3, RootAddr, obj))

\* A faulty variant of JSOP_enter that opens the file to write before it
\* has read the format.
JSOP_enter_WriteFirst(S, readonly) ==
    LET S1 == GetItem(W_enter(S, "w", FALSE), NameAddr)
        S2 == GetItem(S1, MajorAddr)
        S3 == GetItem(S2, MinorAddr)
        supported_format ==
            /\ PyEq(S1.val, Str(FORMAT_NAME))
            /\ PyEq(S2.val, Num(FORMAT_VERSION_MAJOR))
            /\ NumOf(S3.val) <= FORMAT_VERSION_MINOR
    IN  IF S3.err # "none" THEN Raise(W_exit(S3), CannotDetermine)
        ELSE IF ~supported_format THEN Raise(W_exit(S3), UnsupportedVersion)
        ELSE GetItem(W_enter(W_exit(S3), IF readonly THEN "r" ELSE "w", readonly), RootAddr)

\* JSOP.__enter__.  The three records are read inside a with block on a
\* reading wrapper; the comparisons are made after it is closed, so that a
\* JObject among the three cannot be exported (JData.__getitem__ turns the
\* error of the closed dbm into a referror), and a minor version that is
\* no number cannot be compared.  The store left has the root as val.
JSOP_enter(S, readonly) ==
    LET S1 == GetItem(W_enter(S, "r", FALSE), NameAddr)
        S2 == GetItem(S1, MajorAddr)
        S3 == GetItem(S2, MinorAddr)
        supported_format ==
            /\ PyEq(S1.val, Str(FORMAT_NAME))
            /\ PyEq(S2.val, Num(FORMAT_VERSION_MAJOR))
            /\ NumOf(S3.val) <= FORMAT_VERSION_MINOR
    IN  IF S3.err # "none" THEN Raise(W_exit(S3), CannotDetermine)
        ELSE IF IsJObject(S1.val) \/ IsJObject(S2.val) THEN Raise(W_exit(S3), referror)
        ELSE IF S3.val[1] \notin {"num", "bool"} THEN Raise(W_exit(S3), "TypeError")
        ELSE IF ~supported_format THEN Raise(W_exit(S3), UnsupportedVersion)
        ELSE GetItem(W_enter(W_exit(S3), IF readonly THEN "r" ELSE "w", readonly), RootAddr)

\* JSOP.__exit__
JSOP_exit(S) == W_exit(S)

\* JSOP.export(): "with self as data: return data.export()".  A scalar root
\* has no export method.  __exit__ is called when __enter__ has returned.
JSOP_export(S, readonly) ==
    LET S1 == Call(S, <<"JSOP_enter", readonly>>) IN
    IF S1.err # "none" THEN S1
    ELSE IF IsJObject(S1.val) THEN JSOP_exit(ExportOf(S1, S1.val))
    ELSE JSOP_exit(Raise(S1, "AttributeError"))

\* The call c = <<method, arguments>> made on the store S.
Call(S, c) ==
    IF S.err # "none" THEN S
    ELSE CASE c[1] = "D_getitem" -> D_getitem(S, c[2])
           [] c[1] = "D_setitem" -> D_setitem(S, c[2], c[3])
           [] c[1] = "D_delitem" -> D_delitem(S, c[2])
           [] c[1] = "Export" -> Export(S, c[2])
           [] c[1] = "Destroy" -> Destroy(S, c[2])
           [] c[1] = "PyEquals" -> PyEquals(S, c[2], c[3])
           [] c[1] = "M_getitem" -> M_getitem(S, c[2], c[3])
           [] c[1] = "M_contains" -> Ret(S, Bool(M_contains(S, c[2], c[3])))
           [] c[1] = "M_setitem" -> M_setitem(S, c[2], c[3], c[4])
           [] c[1] = "M_delitem" -> M_delitem(S, c[2], c[3])
           [] c[1] = "M_init" -> M_init(S, c[2], c[3])
           [] c[1] = "M_keys" -> M_keys(S, c[2])
           [] c[1] = "M_iterNext" -> M_iterNext(S, c[2], c[3], c[4], c[5])
           [] c[1] = "M_clear" -> M_clear(S, c[2])
           [] c[1] = "M_get" -> M_get(S, c[2], c[3], c[4])
           [] c[1] = "M_pop" -> M_pop(S, c[2], c[3], c[4])
           [] c[1] = "M_popitem" -> M_popitem(S, c[2])
           [] c[1] = "M_setdefault" -> M_setdefault(S, c[2], c[3], c[4])
           [] c[1] = "M_update" -> M_update(S, c[2], c[3], c[4])
           [] c[1] = "M_export" -> M_export(S, c[2])
           [] c[1] = "M_destroy" -> M_destroy(S, c[2])
           [] c[1] = "L_init" -> L_init(S, c[2], c[3])
           [] c[1] = "L_getitem" -> L_getitem(S, c[2], c[3])
           [] c[1] = "L_setitem" -> L_setitem(S, c[2], c[3], c[4])
           [] c[1] = "L_delitem" -> L_delitem(S, c[2], c[3])
           [] c[1] = "L_insert" -> L_insert(S, c[2], c[3], c[4])
           [] c[1] = "L_append" -> L_append(S, c[2], c[3])
           [] c[1] = "L_pop" -> L_pop(S, c[2])
           [] c[1] = "L_remove" -> L_remove(S, c[2], c[3])
           [] c[1] = "L_index" -> L_index(S, c[2], c[3], c[4], c[5])
           [] c[1] = "L_clear" -> L_clear(S, c[2])
           [] c[1] = "L_mul" -> L_mul(S, c[2], c[3])
           [] c[1] = "L_extend" -> L_extend(S, c[2], c[3])
           [] c[1] = "L_imul" -> L_imul(S, c[2], c[3])
           [] c[1] = "L_iadd" -> L_iadd(S, c[2], c[3])
           [] c[1] = "L_sort" -> L_sort(S, c[2])
           [] c[1] = "L_reverse" -> L_reverse(S, c[2])
           [] c[1] = "GetAttr" -> GetAttr(S, c[2], c[3])
           [] c[1] = "L_export" -> L_export(S, c[2])
           [] c[1] = "L_destroy" -> L_destroy(S, c[2])
           [] c[1] = "JSOP_init" -> JSOP_init(S, c[2], c[3])
           [] c[1] = "JSOP_enter" -> JSOP_enter(S, c[2])
           [] c[1] = "JSOP_export" -> JSOP_export(S, c[2])

(***************************************************************************)
(* The state machine: JSOP objects on one file, used by one caller.        *)
(***************************************************************************)
VARIABLES
    exists,     \* whether the dbm file exists
    db,         \* the records of the dbm file
    cache,      \* the cache of the DBMWrapper of the open session
    mode,       \* "closed", or "rw" / "ro" inside a "with JSOP(path) as data"
    dbms,       \* the flags of the dbm objects that are open
    opens,      \* the flags of the dbm.open() calls that the last call made
    it,         \* the iterator that the caller holds on a JDict
    op,         \* the last call of the caller and its arguments
    pre,        \* the records of the file when that call was made
    err,        \* the exception the call raised, or "none"
    ret,        \* the value the call returned
    nops        \* the number of calls made so far

vars == <<exists, db, cache, mode, dbms, opens, it, op, pre, err, ret, nops>>

\* The record read from the file at an address, decoded.
RawGet(file, address) == JsonLoads(file[BKey(address)])
HasRecord(file, address) == BKey(address) \in DOMAIN file

\* The keys of the map node at A, following the next links from the head.
RECURSIVE ChainSeq(_, _, _, _)
ChainSeq(file, A, key, fuel) ==
    IF key[1] # "str" \/ fuel = 0 THEN <<>>
    ELSE <<key[2]>> \o
         (IF HasRecord(file, KAddr(A, key[2], "n"))
          THEN ChainSeq(file, A, RawGet(file, KAddr(A, key[2], "n")), fuel - 1)
          ELSE <<>>)

LinkedKeys(file, A) ==
    IF HasRecord(file, HeadAddr(A))
    THEN ChainSeq(file, A, RawGet(file, HeadAddr(A)), Cardinality(DOMAIN file))
    ELSE <<>>

Range(seq) == {seq[i] : i \in 1..Len(seq)}

IsMarker(file, A) == HasRecord(file, A) /\ RawGet(file, A)[1] \in {"map", "list"}

\* The JObjects the caller can reach from the root with [] alone.
RECURSIVE Containers(_, _)
Containers(file, A) ==
    IF ~IsMarker(file, A) THEN {}
    ELSE {<<IF RawGet(file, A)[1] = "map" THEN "hmap" ELSE "hlist", A>>}
         \cup UNION {Containers(file, KAddr(A, k, "v")) : k \in Range(LinkedKeys(file, A))}

Handles == {h \in Containers(db, RootAddr) : Len(h[2]) <= 3 * MaxNest}
MapHandles == {h \in Handles : h[1] = "hmap"}
ListHandles == {h \in Handles : h[1] = "hlist"}

(***************************************************************************)
(* The inputs of the caller.                                               *)
(***************************************************************************)
UserKeys == {"a", "b"}

\* The documents given to init().
InitDocs ==
    { EmptyMap, EmptyList, Num(1),
      PyDict(<< <<"a", Num(1)>>, <<"b", PyList(<<Num(1), PyDict(<< <<"a", Bool(TRUE)>> >>)>>)>> >>),
      PyDict(<< <<"b", PyDict(<< <<"b", PyDict(<< <<"a", Num(1)>> >>)>> >>)>>, <<"a", Null>> >>),
      PyList(<<Bool(TRUE), Num(1), PyList(<<Num(1)>>)>>),
      PyList(<<PyList(<<Num(1)>>), Str("x"), PyList(<<Num(1)>>)>>),
      PyList(<<PyDict(<< <<"a", Num(1)>> >>), Num(0)>>) }

\* The native values given to the container operations.
NativeArgs ==
    { Num(1), PyList(<<Num(1)>>), PyDict(<< <<"a", Num(1)>> >>) }

\* The values given to a call on the container h: native ones, and the
\* JObjects data[k] that the root holds (every one of them when h is the
\* root, else those with no container inside).
IsFlat(g) == Containers(db, g[2]) = {g}
ArgValues(h) ==
    NativeArgs \cup
    {g \in Handles : Len(g[2]) = 3 /\ (h[2] = RootAddr \/ IsFlat(g))}

\* The keys given to the map operations.
ArgKeys == {Str(k) : k \in UserKeys} \cup {Str("x")}

ArgIndices == -MaxIdx .. MaxIdx

NoCall == [name |-> "none", h |-> Null, key |-> Null, index |-> 0, value |-> Null]
CallRec(name, h, key, index, value) ==
    [name |-> name, h |-> h, key |-> key, index |-> index, value |-> value]

\* No iterator.  An iterator is new, suspended at a yield, done or failed; it
\* is on the JDict at A and holds key and next_key; keys are the keys the
\* JDict had when it was made, yielded the keys it has yielded, and deleted
\* the keys deleted since, each with the number of keys yielded before.
NoIter ==
    [state |-> "none", A |-> <<>>, key |-> Null, next_key |-> Null, keys |-> <<>>,
     yielded |-> <<>>, deleted |-> <<>>]

\* The store the open session works on, and the store of a call made
\* outside a session.
Cur ==
    [db |-> db, cache |-> cache, ro |-> mode = "ro", open |-> dbms, log |-> <<>>,
     reads |-> <<>>, err |-> "none", val |-> Null]
Shut == Closed(db, dbms)

\* The caller made the call c inside the session, it left the store S and
\* the caller has the value r.
Outcome(c, S, r) ==
    /\ db' = S.db
    /\ cache' = S.cache
    /\ err' = S.err
    /\ ret' = r
    /\ dbms' = S.open
    /\ opens' = S.log
    /\ op' = c
    /\ pre' = db
    /\ nops' = nops + 1
    /\ UNCHANGED <<exists, mode, it>>

\* A statement, or a method that returns None.
Done(c, S) == Outcome(c, S, Null)

\* An expression: the caller has its value unless it raised.
Returned(c, S) == Outcome(c, S, IF S.err = "none" THEN S.val ELSE Null)

\* The caller does not catch exceptions: one that is raised inside the with
\* block leaves the block (DoExit) and ends the run.
CanCall == mode = "rw" /\ err = "none" /\ nops < MaxOps

Init ==
    /\ exists = FALSE
    /\ db = NoRecords
    /\ cache = NoRecords
    /\ mode = "closed"
    /\ dbms = <<>>
    /\ opens = <<>>
    /\ it = NoIter
    /\ op = NoCall
    /\ pre = NoRecords
    /\ err = "none"
    /\ ret = Null
    /\ nops = 0

\* JSOP(path, readonly).init(obj), for a document and a flag of the sets
\* given; cost is what the call adds to the number of calls made.
InitWith(docs, flags, cost) ==
    /\ mode = "closed"
    /\ err = "none"
    /\ \E obj \in docs, readonly \in flags :
         LET S == Call(Shut, <<"JSOP_init", readonly, obj>>) IN
         /\ db' = S.db
         /\ err' = S.err
         /\ dbms' = S.open
         /\ opens' = S.log
         /\ exists' = (exists \/ ~readonly)
         /\ op' = CallRec("init", Null, Bool(readonly), 0, obj)
    /\ pre' = db
    /\ ret' = Null
    /\ nops' = nops + cost
    /\ UNCHANGED <<cache, mode, it>>

\* with JSOP(path, readonly) as data: ...
EnterWith(flags) ==
    /\ mode = "closed"
    /\ exists
    /\ err = "none"
    /\ \E readonly \in flags :
         LET S == Call(Shut, <<"JSOP_enter", readonly>>) IN
         /\ db' = S.db
         /\ cache' = IF S.err = "none" THEN S.cache ELSE NoRecords
         /\ err' = S.err
         /\ ret' = IF S.err = "none" THEN S.val ELSE Null
         /\ mode' = IF S.err # "none" THEN "closed" ELSE IF readonly THEN "ro" ELSE "rw"
         /\ dbms' = S.open
         /\ opens' = S.log
         /\ op' = CallRec("enter", Null, Bool(readonly), 0, Null)
    /\ pre' = db
    /\ UNCHANGED <<exists, it, nops>>

\* The end of the with block, reached normally or by an exception:
\* JSOP.__exit__ closes the wrapper and its cache is gone with it.
DoExit ==
    /\ mode \in {"rw", "ro"}
    /\ mode' = "closed"
    /\ cache' = NoRecords
    /\ dbms' = JSOP_exit(Cur).open
    /\ opens' = <<>>
    /\ op' = CallRec("exit", Null, Null, 0, Null)
    /\ pre' = db
    /\ ret' = Null
    /\ UNCHANGED <<exists, db, it, err, nops>>

\* JSOP(path, readonly).export()
ExportWith(flags) ==
    /\ mode = "closed"
    /\ exists
    /\ err = "none"
    /\ \E readonly \in flags :
         LET S == Call(Shut, <<"JSOP_export", readonly>>) IN
         /\ db' = S.db
         /\ err' = S.err
         /\ ret' = IF S.err = "none" THEN S.val ELSE Null
         /\ dbms' = S.open
         /\ opens' = S.log
    /\ op' = [op EXCEPT !.name = IF op.name = "init" THEN "init_export" ELSE "export"]
    /\ pre' = db
    /\ UNCHANGED <<exists, cache, mode, it, nops>>

\* data[key] = value on a JDict
MapPutWith(keys, values) ==
    \E h \in MapHandles, key \in keys : \E value \in values[h] :
        Done(CallRec("map_put", h, key, 0, value),
             Call(Cur, <<"M_setitem", h[2], key, value>>))

\* del data[key] on a JDict
MapDelWith(keys) ==
    \E h \in MapHandles, key \in keys :
        Done(CallRec("map_del", h, key, 0, Null), Call(Cur, <<"M_delitem", h[2], key>>))

\* data.clear() on a JDict or a JList
ClearWith(handles) ==
    \E h \in handles :
        Done(CallRec("clear", h, Null, 0, Null),
             Call(Cur, <<IF h[1] = "hmap" THEN "M_clear" ELSE "L_clear", h[2]>>))

\* data[index] = value on a JList
ListPutWith(indices, values) ==
    \E h \in ListHandles, index \in indices : \E value \in values[h] :
        Done(CallRec("list_put", h, Null, index, value),
             Call(Cur, <<"L_setitem", h[2], index, value>>))

\* del data[index] on a JList
ListDelWith(indices) ==
    \E h \in ListHandles, index \in indices :
        Done(CallRec("list_del", h, Null, index, Null),
             Call(Cur, <<"L_delitem", h[2], index>>))

\* data.remove(item) on a JList
ListRemoveWith(values) ==
    \E h \in ListHandles : \E value \in values[h] :
        Done(CallRec("list_remove", h, Null, 0, value),
             Call(Cur, <<"L_remove", h[2], value>>))

\* data.insert(index, value) on a JList
ListInsertWith(indices, values) ==
    \E h \in ListHandles, index \in indices : \E value \in values[h] :
        Done(CallRec("list_insert", h, Null, index, value),
             Call(Cur, <<"L_insert", h[2], index, value>>))

\* data.append(item) on a JList
ListAppendWith(values) ==
    \E h \in ListHandles : \E value \in values[h] :
        Done(CallRec("list_append", h, Null, 0, value),
             Call(Cur, <<"L_append", h[2], value>>))

(***************************************************************************)
(* Spec: a file is made by init(), and a read-write session makes up to    *)
(* MaxOps writing calls on its containers.                                 *)
(***************************************************************************)
RemoveValues(h) == ArgValues(h) \cup {Bool(TRUE), Num(0)}

DoInit == ~exists /\ InitWith(InitDocs, {FALSE}, 0)
DoEnter == EnterWith({FALSE})
DoExport == op.name \in {"init", "exit"} /\ ExportWith({FALSE})
DoMapPut == CanCall /\ MapPutWith(ArgKeys, [h \in MapHandles |-> ArgValues(h)])
DoMapDel == CanCall /\ MapDelWith(ArgKeys)
DoClear == CanCall /\ ClearWith(Handles)
DoListPut == CanCall /\ ListPutWith(ArgIndices, [h \in ListHandles |-> ArgValues(h)])
DoListDel == CanCall /\ ListDelWith(ArgIndices)
DoListRemove == CanCall /\ ListRemoveWith([h \in ListHandles |-> RemoveValues(h)])
DoListInsert == CanCall /\ ListInsertWith(ArgIndices, [h \in ListHandles |-> ArgValues(h)])
DoListAppend == CanCall /\ ListAppendWith([h \in ListHandles |-> ArgValues(h)])

Next ==
    \/ DoInit
    \/ DoEnter
    \/ DoExit
    \/ DoExport
    \/ DoMapPut
    \/ DoMapDel
    \/ DoClear
    \/ DoListPut
    \/ DoListDel
    \/ DoListRemove
    \/ DoListInsert
    \/ DoListAppend

Spec == Init /\ [][Next]_vars

(***************************************************************************)
(* SpecQ: a read-write session makes up to MaxOps calls of the lookups and *)
(* removals of JDict and JList, on keys given as strings and as integers.  *)
(***************************************************************************)
QDocs ==
    { EmptyMap, EmptyList,
      PyDict(<< <<"7", Num(1)>>, <<"a", PyList(<<Num(1), Bool(TRUE)>>)>> >>),
      PyDict(<< <<"a", PyDict(<< <<"7", PyList(<<Num(1)>>)>> >>)>>, <<"7", Null>> >>),
      PyList(<<Num(1), PyList(<<Num(1)>>), Bool(TRUE)>>) }

QKeys == {Str("a"), Str("7"), Num(7)}
QValues == {Num(1), PyList(<<Num(1)>>)}
QItems == {Num(1), Num(0), Bool(TRUE), PyList(<<Num(1)>>)}
\* The default of the stop argument of index(): the largest integer, which
\* is above the length of every list (2^63 - 1 in the code, 2^31 - 1 here).
DefaultStop == 2147483647

\* The method call that a call of the caller is: the method and its
\* arguments.  For pop, index is the number of arguments after the key; for
\* update, value is other and key the dict of the keyword arguments.  A
\* call of prepend or cells starts with the lookup of the name.
MethodCall(c) ==
    CASE c.name = "map_getitem" -> <<"M_getitem", c.h[2], c.key>>
      [] c.name = "map_get" -> <<"M_get", c.h[2], c.key, c.value>>
      [] c.name = "map_contains" -> <<"M_contains", c.h[2], c.key>>
      [] c.name = "map_pop" ->
            <<"M_pop", c.h[2], c.key, IF c.index = 1 THEN <<c.value>> ELSE <<>> >>
      [] c.name = "map_popitem" -> <<"M_popitem", c.h[2]>>
      [] c.name = "map_setdefault" -> <<"M_setdefault", c.h[2], c.key, c.value>>
      [] c.name = "map_put" -> <<"M_setitem", c.h[2], c.key, c.value>>
      [] c.name = "map_del" -> <<"M_delitem", c.h[2], c.key>>
      [] c.name = "list_getitem" -> <<"L_getitem", c.h[2], c.index>>
      [] c.name = "list_pop" -> <<"L_pop", c.h[2]>>
      [] c.name = "list_index" -> <<"L_index", c.h[2], c.value, 0, DefaultStop>>
      [] c.name = "list_imul" -> <<"L_imul", c.h[2], c.index>>
      [] c.name = "list_put" -> <<"L_setitem", c.h[2], c.index, c.value>>
      [] c.name = "list_del" -> <<"L_delitem", c.h[2], c.index>>
      [] c.name = "list_remove" -> <<"L_remove", c.h[2], c.value>>
      [] c.name = "list_insert" -> <<"L_insert", c.h[2], c.index, c.value>>
      [] c.name = "list_append" -> <<"L_append", c.h[2], c.value>>
      [] c.name = "clear" -> <<IF c.h[1] = "hmap" THEN "M_clear" ELSE "L_clear", c.h[2]>>
      [] c.name = "map_update" -> <<"M_update", c.h[2], c.value, c.key>>
      [] c.name = "list_extend" -> <<"L_extend", c.h[2], c.value>>
      [] c.name = "list_iadd" -> <<"L_iadd", c.h[2], c.value>>
      [] c.name = "list_sort" -> <<"L_sort", c.h[2]>>
      [] c.name = "list_reverse" -> <<"L_reverse", c.h[2]>>
      [] c.name = "list_prepend" -> <<"GetAttr", c.h, "prepend">>
      [] c.name = "list_cells" -> <<"GetAttr", c.h, "cells">>

\* An expression of the caller that is the method call of c.
Eval(c) == Returned(c, Call(Cur, MethodCall(c)))

\* data[key] on a JDict
QMapGetItem ==
    \E h \in MapHandles, key \in QKeys : Eval(CallRec("map_getitem", h, key, 0, Null))

\* data.get(key, default) on a JDict
QMapGet ==
    \E h \in MapHandles, key \in QKeys : Eval(CallRec("map_get", h, key, 0, Num(5)))

\* key in data on a JDict
QMapContains ==
    \E h \in MapHandles, key \in QKeys : Eval(CallRec("map_contains", h, key, 0, Null))

\* data.pop(key) and data.pop(key, default) on a JDict
QMapPop ==
    \E h \in MapHandles, key \in QKeys, n \in {0, 1} :
        Eval(CallRec("map_pop", h, key, n, IF n = 1 THEN Num(5) ELSE Null))

\* data.popitem() on a JDict
QMapPopItem ==
    \E h \in MapHandles : Eval(CallRec("map_popitem", h, Null, 0, Null))

\* data.setdefault(key, default) on a JDict
QMapSetDefault ==
    \E h \in MapHandles, key \in QKeys :
        Eval(CallRec("map_setdefault", h, key, 0, Num(5)))

\* data[index] on a JList
QListGetItem ==
    \E h \in ListHandles, index \in ArgIndices :
        Eval(CallRec("list_getitem", h, Null, index, Null))

\* data.pop() on a JList
QListPop ==
    \E h \in ListHandles : Eval(CallRec("list_pop", h, Null, 0, Null))

\* data.index(value) on a JList
QListIndex ==
    \E h \in ListHandles : \E value \in QItems :
        Eval(CallRec("list_index", h, Null, 0, value))

\* data *= k on a JList: the caller has data again, the method returns self.
QListImul ==
    \E h \in ListHandles, k \in 0..MaxMul :
        LET c == CallRec("list_imul", h, Null, k, Null) IN
        Outcome(c, Call(Cur, MethodCall(c)), h)

NextQ ==
    \/ ~exists /\ InitWith(QDocs, {FALSE}, 0)
    \/ EnterWith({FALSE})
    \/ DoExit
    \/ CanCall /\ QMapGetItem
    \/ CanCall /\ QMapGet
    \/ CanCall /\ QMapContains
    \/ CanCall /\ QMapPop
    \/ CanCall /\ QMapPopItem
    \/ CanCall /\ QMapSetDefault
    \/ CanCall /\ MapPutWith(QKeys, [h \in MapHandles |-> QValues])
    \/ CanCall /\ MapDelWith(QKeys)
    \/ CanCall /\ QListGetItem
    \/ CanCall /\ QListPop
    \/ CanCall /\ QListIndex
    \/ CanCall /\ QListImul
    \/ CanCall /\ ListPutWith(ArgIndices, [h \in ListHandles |-> QValues])
    \/ CanCall /\ ListDelWith(ArgIndices)
    \/ CanCall /\ ListRemoveWith([h \in ListHandles |-> QItems])

SpecQ == Init /\ [][NextQ]_vars

(***************************************************************************)
(* SpecOpen: the life of a file.  It is made by init(), read-write or      *)
(* read-only sessions and export() are opened on it, another program may   *)
(* change or remove its format records and its root record with dbm, and   *)
(* init() may be run on it again.  The calls made in the sessions, the     *)
(* changes of the other program and the later init() calls are MaxOps at   *)
(* most together.                                                          *)
(***************************************************************************)
ODocs == QDocs \cup {Num(1)}

\* What another program leaves at an address: no record, or a value of the
\* type that init() writes there.
TamperEdits(address) ==
    IF address = NameAddr THEN {Null, Str("X")}
    ELSE IF address = RootAddr THEN {Null}
    ELSE {Null, Num(0), Num(1), Num(2)}

\* Another program opens the file with dbm when no session is open and
\* deletes a record (Null) or writes one.
Tamper ==
    /\ mode = "closed"
    /\ exists
    /\ err = "none"
    /\ nops < MaxOps
    /\ \E address \in {NameAddr, MajorAddr, MinorAddr, RootAddr} :
         \E v \in TamperEdits(address) :
            /\ db' = IF v = Null THEN MapDel(db, BKey(address))
                     ELSE MapPut(db, BKey(address), JsonDumps(v))
            /\ op' = CallRec("tamper", <<"record", address>>, Null, 0, v)
    /\ pre' = db
    /\ ret' = Null
    /\ opens' = <<>>
    /\ nops' = nops + 1
    /\ UNCHANGED <<exists, cache, mode, dbms, it, err>>

\* A call can be made in the session, read-write or read-only.
CanCallAny == mode \in {"rw", "ro"} /\ err = "none" /\ nops < MaxOps

NextOpen ==
    \/ ~exists /\ InitWith(ODocs, {FALSE, TRUE}, 0)
    \/ exists /\ nops < MaxOps /\ InitWith(ODocs, {FALSE, TRUE}, 1)
    \/ EnterWith({FALSE, TRUE})
    \/ DoExit
    \/ op.name \in {"init", "exit", "tamper"} /\ ExportWith({FALSE, TRUE})
    \/ Tamper
    \/ CanCallAny /\ QMapGetItem
    \/ CanCallAny /\ QMapPop
    \/ CanCallAny /\ QMapPopItem
    \/ CanCallAny /\ QMapSetDefault
    \/ CanCallAny /\ MapPutWith(QKeys, [h \in MapHandles |-> QValues])
    \/ CanCallAny /\ MapDelWith(QKeys)
    \/ CanCallAny /\ ClearWith(Handles)
    \/ CanCallAny /\ QListPop
    \/ CanCallAny /\ QListImul
    \/ CanCallAny /\ ListPutWith(ArgIndices, [h \in ListHandles |-> QValues])
    \/ CanCallAny /\ ListDelWith(ArgIndices)
    \/ CanCallAny /\ ListRemoveWith([h \in ListHandles |-> QItems])
    \/ CanCallAny /\ ListInsertWith(ArgIndices, [h \in ListHandles |-> QValues])
    \/ CanCallAny /\ ListAppendWith([h \in ListHandles |-> QValues])

SpecOpen == Init /\ [][NextOpen]_vars

(***************************************************************************)
(* SpecIter: in a read-write session the caller iterates a JDict with     *)
(* "for key in data" and deletes up to MaxOps keys of it in the body of    *)
(* the loop and before the first step.  The iterator is used in the        *)
(* session it was made in.                                                 *)
(***************************************************************************)
IDocs ==
    { EmptyMap,
      PyDict(<< <<"b", Num(1)>> >>),
      PyDict(<< <<"a", Num(1)>>, <<"b", PyList(<<Num(1)>>)>>, <<"c", Num(2)>> >>),
      PyDict(<< <<"c", PyDict(<< <<"b", Num(1)>>, <<"a", Null>>, <<"c", EmptyMap>> >>)>>,
                <<"a", Num(0)>> >>) }

IterActive == mode = "rw" /\ err = "none" /\ it.state \in {"new", "suspended"}

\* g = iter(data): a generator that has not run yet.
IterStart ==
    /\ mode = "rw"
    /\ err = "none"
    /\ it.state = "none"
    /\ \E h \in MapHandles :
         /\ it' = [NoIter EXCEPT !.state = "new", !.A = h[2], !.keys = LinkedKeys(db, h[2])]
         /\ op' = CallRec("iter", h, Null, 0, Null)
    /\ pre' = db
    /\ ret' = Null
    /\ UNCHANGED <<exists, db, cache, mode, dbms, opens, err, nops>>

\* next(g), as the for statement calls it: a StopIteration ends the loop,
\* another exception leaves it.
IterNext ==
    /\ IterActive
    /\ LET S == Call(Cur, <<"M_iterNext", it.A, it.state = "suspended", it.key, it.next_key>>)
       IN  /\ db' = S.db
           /\ cache' = S.cache
           /\ dbms' = S.open
           /\ opens' = S.log
           /\ err' = IF S.err = "StopIteration" THEN "none" ELSE S.err
           /\ ret' = IF S.err = "none" THEN S.val[2][1] ELSE Null
           /\ it' = IF S.err = "none"
                    THEN [it EXCEPT !.state = "suspended", !.key = S.val[2][1],
                                    !.next_key = S.val[2][2],
                                    !.yielded = Append(@, S.val[2][1][2])]
                    ELSE [it EXCEPT !.state = IF S.err = "StopIteration" THEN "done"
                                              ELSE "failed"]
    /\ op' = CallRec("next", <<"hmap", it.A>>, Null, 0, Null)
    /\ pre' = db
    /\ UNCHANGED <<exists, mode, nops>>

\* del data[key] while the iterator is live, for a key the JDict has.
IterDel ==
    /\ IterActive
    /\ Len(it.deleted) < MaxOps
    /\ \E k \in Range(LinkedKeys(db, it.A)) :
         LET S == Call(Cur, <<"M_delitem", it.A, Str(k)>>) IN
         /\ db' = S.db
         /\ cache' = S.cache
         /\ dbms' = S.open
         /\ opens' = S.log
         /\ err' = S.err
         /\ it' = [it EXCEPT !.deleted = Append(@, <<k, Len(it.yielded)>>)]
         /\ op' = CallRec("map_del", <<"hmap", it.A>>, Str(k), 0, Null)
    /\ pre' = db
    /\ ret' = Null
    /\ nops' = nops + 1
    /\ UNCHANGED <<exists, mode>>

NextIter ==
    \/ ~exists /\ InitWith(IDocs, {FALSE}, 0)
    \/ it.state = "none" /\ EnterWith({FALSE})
    \/ DoExit
    \/ IterStart
    \/ IterNext
    \/ IterDel

SpecIter == Init /\ [][NextIter]_vars

(***************************************************************************)
(* SpecMut: a read-write session makes up to MaxOps calls of the methods   *)
(* of JDict and JList that change a container, with native values and with *)
(* the JObjects of the file, the container of the call among them.         *)
(***************************************************************************)
MDocs ==
    { PyDict(<< <<"a", PyDict(<< <<"b", PyList(<<Num(1)>>)>> >>)>>, <<"c", Num(1)>> >>),
      PyDict(<< <<"b", PyList(<<Num(3), Num(1)>>)>>, <<"a", EmptyMap>> >>),
      PyList(<<Num(2), Bool(TRUE), Num(1)>>),
      PyList(<<PyList(<<Num(1), PyList(<<Num(2)>>)>>), Num(0)>>) }

MKeys == {Str("a"), Str("b")}
MIndices == {-1, 0, 1, MaxIdx}
MNatives == {Num(1), PyDict(<< <<"a", PyList(<<Num(1)>>)>> >>)}

\* Every JObject of the file, at any depth.
AllObjects == Containers(db, RootAddr)
\* The values given to the calls: native ones, and JObjects.
MValues == MNatives \cup AllObjects

\* The arguments of update(): other, and the dict of the keyword arguments.
UpdateArgs ==
    {<<Null, PyDict(<< <<"b", Num(2)>> >>)>>,
     <<PyDict(<< <<"x", Num(2)>>, <<"a", PyList(<<Num(1)>>)>> >>), EmptyMap>>,
     <<PyList(<< <<"tuple", <<Str("a"), Num(2)>> >>, <<"tuple", <<Num(7), EmptyMap>> >> >>),
       EmptyMap>>}
    \cup {<<g, EmptyMap>> : g \in {g \in AllObjects : g[1] = "hmap"}}

\* The arguments of extend() and of +=.
ExtendArgs == {PyList(<<Num(1), PyList(<<Num(1)>>)>>)} \cup {g \in AllObjects : g[1] = "hlist"}

\* data.update(other, **kw) on a JDict
MapUpdate ==
    \E h \in MapHandles, a \in UpdateArgs :
        LET c == CallRec("map_update", h, a[2], 0, a[1]) IN Done(c, Call(Cur, MethodCall(c)))

\* data.extend(other) on a JList
ListExtend ==
    \E h \in ListHandles, other \in ExtendArgs :
        LET c == CallRec("list_extend", h, Null, 0, other) IN
        Done(c, Call(Cur, MethodCall(c)))

\* data += other on a JList that a variable of the caller holds
ListIadd ==
    \E h \in ListHandles, other \in ExtendArgs : Eval(CallRec("list_iadd", h, Null, 0, other))

\* data.sort() and data.reverse() on a JList
ListSort ==
    \E h \in ListHandles :
        LET c == CallRec("list_sort", h, Null, 0, Null) IN Done(c, Call(Cur, MethodCall(c)))

ListReverse ==
    \E h \in ListHandles :
        LET c == CallRec("list_reverse", h, Null, 0, Null) IN
        Done(c, Call(Cur, MethodCall(c)))

\* data.prepend(value) on a JList
ListPrepend ==
    \E h \in ListHandles, value \in MNatives :
        LET c == CallRec("list_prepend", h, Null, 0, value) IN
        Done(c, Call(Cur, MethodCall(c)))

\* for cell in data.cells() on a JList
ListCells ==
    \E h \in ListHandles : Eval(CallRec("list_cells", h, Null, 0, Null))

NextMut ==
    \/ ~exists /\ InitWith(MDocs, {FALSE}, 0)
    \/ EnterWith({FALSE})
    \/ DoExit
    \/ CanCall /\ MapPutWith(MKeys, [h \in MapHandles |-> MValues])
    \/ CanCall /\ MapDelWith(MKeys)
    \/ CanCall /\ QMapPop
    \/ CanCall /\ QMapPopItem
    \/ CanCall /\ QMapSetDefault
    \/ CanCall /\ MapUpdate
    \/ CanCall /\ ClearWith(Handles)
    \/ CanCall /\ ListAppendWith([h \in ListHandles |-> MValues])
    \/ CanCall /\ ListPutWith(MIndices, [h \in ListHandles |-> MValues])
    \/ CanCall /\ ListDelWith(MIndices)
    \/ CanCall /\ ListInsertWith(MIndices, [h \in ListHandles |-> MNatives])
    \/ CanCall /\ QListPop
    \/ CanCall /\ ListRemoveWith([h \in ListHandles |-> MNatives])
    \/ CanCall /\ ListExtend
    \/ CanCall /\ ListIadd
    \/ CanCall /\ QListImul
    \/ CanCall /\ ListSort
    \/ CanCall /\ ListReverse
    \/ CanCall /\ ListPrepend
    \/ CanCall /\ ListCells

SpecMut == Init /\ [][NextMut]_vars

(***************************************************************************)
(* SpecMeta: a read-write session makes up to MaxOps calls on maps and     *)
(* lists with the keys that the addresses of the file are made of, and the *)
(* file is opened again after the session.                                 *)
(***************************************************************************)
MetaDocs ==
    { PyDict(<< <<"m", PyDict(<< <<"format-name", Num(0)>> >>)>>, <<"", Num(1)>> >>),
      PyDict(<< <<"k", PyDict(<< <<"v", Num(1)>> >>)>>, <<"p", EmptyList>> >>),
      PyList(<<Str("m"), PyDict(<< <<"s", Num(1)>> >>)>>) }

\* The components of the addresses, given as keys: those of a map node, of
\* an entry and of the format records, and the empty string.
MetaKeys ==
    {Str("m"), Str("p"), Str("n"), Str("s"), Str("k"), Str("v"), Str(""), Str("format-name")}

MetaValues ==
    {Num(0), PyDict(<< <<"format-name", Num(0)>>, <<"format-version-major", Num(0)>> >>)}

\* The arguments of update(): other, and the dict of the keyword arguments.
MetaUpdateArgs ==
    {<<Null, PyDict(<< <<"m", PyDict(<< <<"format-version-minor", Num(9)>> >>)>> >>)>>,
     <<PyDict(<< <<"format-name", Num(0)>>, <<"", EmptyMap>> >>), EmptyMap>>}

\* data.update(other, **kw) on a JDict
MetaMapUpdate ==
    \E h \in MapHandles, a \in MetaUpdateArgs :
        LET c == CallRec("map_update", h, a[2], 0, a[1]) IN Done(c, Call(Cur, MethodCall(c)))

\* data.setdefault(key, default) on a JDict
MetaMapSetDefault ==
    \E h \in MapHandles, key \in MetaKeys :
        Eval(CallRec("map_setdefault", h, key, 0, EmptyMap))

\* data.pop(key) on a JDict
MetaMapPop ==
    \E h \in MapHandles, key \in MetaKeys : Eval(CallRec("map_pop", h, key, 0, Null))

NextMeta ==
    \/ ~exists /\ InitWith(MetaDocs, {FALSE}, 0)
    \/ EnterWith({FALSE})
    \/ DoExit
    \/ CanCall /\ MapPutWith(MetaKeys, [h \in MapHandles |-> MetaValues])
    \/ CanCall /\ MapDelWith(MetaKeys)
    \/ CanCall /\ MetaMapPop
    \/ CanCall /\ MetaMapSetDefault
    \/ CanCall /\ MetaMapUpdate
    \/ CanCall /\ ClearWith(Handles)
    \/ CanCall /\ ListAppendWith([h \in ListHandles |-> MetaValues \cup MetaKeys])
    \/ CanCall /\ ListPutWith({-1, 0}, [h \in ListHandles |-> MetaValues])
    \/ CanCall /\ ListInsertWith({0}, [h \in ListHandles |-> MetaValues])
    \/ CanCall /\ ListDelWith({-1, 0})

SpecMeta == Init /\ [][NextMeta]_vars

(***************************************************************************)
(* What the claims are stated with: the caller's view of the file (what    *)
(* the value at an address exports), the records under an address, and the *)
(* native Python operations the container operations are compared to.      *)
(***************************************************************************)
IsError(v) == v[1] = "error"

\* The native value of what the file holds at an address, read by a fresh
\* session: the export of a container, the value of a scalar.
ViewAt(file, address) ==
    LET S == D_getitem(Wrapper(file), address) IN
    IF ~Ok(S) THEN <<"error", S.err>>
    ELSE IF ~IsJObject(S.val) THEN S.val
    ELSE LET E == Export(S, S.val) IN IF Ok(E) THEN E.val ELSE <<"error", E.err>>

\* keys() of the map at A, as a sequence of strings.
KeysOf(file, A) ==
    LET S == M_keys(Wrapper(file), A) IN
    IF Ok(S) THEN [i \in 1..Len(S.val[2]) |-> S.val[2][i][2]] ELSE <<"error">>

PairKeys(pairs) == [i \in 1..Len(pairs) |-> pairs[i][1]]

IsPrefix(a, b) == Len(a) <= Len(b) /\ SubSeq(b, 1, Len(a)) = a
Disjoint(a, b) == ~IsPrefix(a, b) /\ ~IsPrefix(b, a)

IsMeta(r) == r \in {NameAddr, MajorAddr, MinorAddr}

\* The records of the file at and under an address.
Under(file, A) ==
    IF A = RootAddr THEN {r \in DOMAIN file : ~IsMeta(r)}
    ELSE {r \in DOMAIN file : IsPrefix(A, r)}

\* The records that belong to the value at A: its own record and, for a
\* container, its head, tail and size and the records of its linked entries.
RECURSIVE Walk(_, _)
Walk(file, A) ==
    IF ~HasRecord(file, A) THEN {}
    ELSE {BKey(A)} \cup
         (IF ~IsMarker(file, A) THEN {}
          ELSE {HeadAddr(A), TailAddr(A), SizeAddr(A)} \cup
               UNION {{KAddr(A, k, "p"), KAddr(A, k, "n")} \cup Walk(file, KAddr(A, k, "v")) :
                      k \in Range(LinkedKeys(file, A))})

SeqRemoveAt(s, j) == SubSeq(s, 1, j - 1) \o SubSeq(s, j + 1, Len(s))
SeqReplaceAt(s, j, v) == [s EXCEPT ![j] = v]
SeqInsertAt(s, j, v) == SubSeq(s, 1, j - 1) \o <<v>> \o SubSeq(s, j, Len(s))

\* The position of the first item equal to x, or 0.
FirstEqual(items, x, Eq(_, _)) ==
    LET hits == {j \in 1..Len(items) : Eq(items[j], x)} IN
    IF hits = {} THEN 0 ELSE CHOOSE j \in hits : \A i \in hits : j <= i

\* The last call: the container it was made on before and after, the value
\* it was given (a JObject stands for its export when the call was made),
\* and the entry it names.
OpAddr == op.h[2]
IsMapOp == op.name \in {"map_put", "map_del"}
IsListOp == op.name \in {"list_put", "list_del", "list_remove", "list_insert", "list_append"}
Before == ViewAt(pre, OpAddr)
After == ViewAt(db, OpAddr)
ArgNative == IF IsJObject(op.value) THEN ViewAt(pre, op.value[2]) ELSE op.value
PreLen == RawGet(pre, SizeAddr(OpAddr))[2]
InRange == op.index \in -PreLen .. PreLen - 1
NormIndex == IF op.index < 0 THEN op.index + PreLen ELSE op.index
ClampIndex ==
    IF op.index >= PreLen THEN PreLen
    ELSE IF op.index < -PreLen THEN 0
    ELSE NormIndex
Victim ==
    IF IsMapOp THEN KAddr(OpAddr, PyStr(op.key), "v")
    ELSE KAddr(OpAddr, IntToStr(NormIndex), "v")
\* The part of the file a call works on: the entry for a map put or delete,
\* the whole container for the calls that move or remove several entries.
Region == IF IsMapOp THEN Victim ELSE OpAddr

(***************************************************************************)
(* The claims.                                                             *)
(***************************************************************************)
\* C1: init(X) followed by export() completes and returns a value equal to
\* X, for every JSON value X, a scalar at the root included.
C1_RoundTrip ==
    op.name = "init_export" => (err = "none" /\ ret = op.value)

\* C2: when a container stored at an address is overwritten or its entry is
\* deleted, no record of the old container is left: every record under the
\* address belongs to the value that is there now (none after a map delete),
\* and every record under the container the call was made on belongs to it.
C2_SubtreeDestroyed ==
    (/\ op.name \in {"map_put", "map_del", "list_put", "list_del"}
     /\ err = "none"
     /\ IsMarker(pre, Victim))
    => /\ Under(db, Victim) = Walk(db, Victim)
       /\ Under(db, OpAddr) = Walk(db, OpAddr)
       /\ op.name = "map_del" => Under(db, Victim) = {}

C2_Witness ==
    /\ op.name = "map_put"
    /\ err = "none"
    /\ IsMarker(pre, Victim)
    /\ \E r \in Under(pre, Victim) : Len(r) >= Len(Victim) + 6
    /\ ~IsMarker(db, Victim)

\* C3: keys() and iteration give the keys of a map in the order of their
\* first insertion: a put of a new key adds it at the end, a put of a present
\* key leaves the order alone, a delete takes the key out and keeps the rest
\* in order, and init() of a map inserts its keys in their order; export()
\* lists the entries in the order of keys().
C3_InsertionOrder ==
    /\ (op.name = "map_put" /\ err = "none") =>
          /\ KeysOf(db, OpAddr) =
                IF PyStr(op.key) \in Range(KeysOf(pre, OpAddr))
                THEN KeysOf(pre, OpAddr)
                ELSE Append(KeysOf(pre, OpAddr), PyStr(op.key))
          /\ ~IsError(After) => PairKeys(After[2]) = KeysOf(db, OpAddr)
    /\ (op.name = "map_del" /\ err = "none") =>
          /\ KeysOf(db, OpAddr) =
                SelectSeq(KeysOf(pre, OpAddr), LAMBDA k : k # PyStr(op.key))
          /\ ~IsError(After) => PairKeys(After[2]) = KeysOf(db, OpAddr)
    /\ (op.name = "init" /\ IsDict(op.value)) =>
          KeysOf(db, RootAddr) = PairKeys(op.value[2])

\* The key "a", first of two keys at init, deleted and put again: it is last.
C3_Witness ==
    /\ op.name = "map_put"
    /\ err = "none"
    /\ OpAddr = RootAddr
    /\ op.key = Str("a")
    /\ nops = 2
    /\ KeysOf(pre, RootAddr) = <<"b">>
    /\ KeysOf(db, RootAddr) = <<"b", "a">>
    /\ ViewAt(db, KAddr(RootAddr, "b", "v")) =
          PyList(<<Num(1), PyDict(<< <<"a", Bool(TRUE)>> >>)>>)

\* C4: a put on a key that the map already holds changes only the value of
\* the key: every record of the file outside the value of the key (size, head,
\* tail, the links of every entry, every other value) is as it was, keys() is
\* as it was, and the value of the key is the value given.
C4_PutExistingKey ==
    (/\ op.name = "map_put"
     /\ HasRecord(pre, Victim)
     /\ ~IsError(ArgNative))
    => /\ err = "none"
       /\ \A r \in (DOMAIN pre) \cup (DOMAIN db) :
             ~IsPrefix(Victim, r) => (r \in DOMAIN pre /\ r \in DOMAIN db /\ pre[r] = db[r])
       /\ KeysOf(db, OpAddr) = KeysOf(pre, OpAddr)
       /\ ViewAt(db, Victim) = ArgNative

C4_Witness ==
    /\ op.name = "map_put"
    /\ err = "none"
    /\ HasRecord(pre, Victim)
    /\ Len(KeysOf(pre, OpAddr)) = 2
    /\ PyStr(op.key) = KeysOf(pre, OpAddr)[1]
    /\ ViewAt(pre, Victim) # ViewAt(db, Victim)

\* C5: a put of a JObject whose container lies elsewhere in the file stores
\* a copy: the key then holds the export the JObject had when the call was
\* made, the JObject's container is as it was, and a call made on one
\* container changes no container outside the part of the file it works on,
\* so that the copy and the original change independently.
C5_Snapshot ==
    /\ (/\ op.name = "map_put"
        /\ IsJObject(op.value)
        /\ Disjoint(op.value[2], Victim)
        /\ ~IsError(ArgNative))
       => /\ err = "none"
          /\ ViewAt(db, Victim) = ArgNative
          /\ ViewAt(db, op.value[2]) = ArgNative
    /\ (IsMapOp \/ IsListOp \/ op.name = "clear") =>
          \A B \in Containers(pre, RootAddr) :
              Disjoint(B[2], Region) => ViewAt(db, B[2]) = ViewAt(pre, B[2])

\* data["x"] = data["b"] was made and then data["b"] was appended to: the
\* copy at "x" is the list as it was.
C5_Witness ==
    /\ op.name = "list_append"
    /\ err = "none"
    /\ nops = 2
    /\ OpAddr = KAddr(RootAddr, "b", "v")
    /\ ViewAt(db, KAddr(RootAddr, "x", "v")) = Before
    /\ Len(Before[2]) = 2
    /\ After # Before

\* C6: a list put at an index i with -n <= i < n replaces the element at the
\* normalised index and nothing else: the length is still n and the export
\* is the former export with that element replaced by the value.
C6_ListPut ==
    (/\ op.name = "list_put"
     /\ IsList(Before)
     /\ InRange
     /\ ~IsError(ArgNative))
    => /\ err = "none"
       /\ After = PyList(SeqReplaceAt(Before[2], NormIndex + 1, ArgNative))

\* C7: a list delete at an index i with -n <= i < n is the removal from a
\* dense array: the export is the former export without the element at the
\* normalised index, the later elements one place to the left.
C7_ListDelete ==
    (/\ op.name = "list_del"
     /\ IsList(Before)
     /\ InRange)
    => /\ err = "none"
       /\ After = PyList(SeqRemoveAt(Before[2], NormIndex + 1))
       /\ RawGet(db, SizeAddr(OpAddr)) = Num(PreLen - 1)

C7_Witness ==
    /\ op.name = "list_del"
    /\ err = "none"
    /\ op.index = -3
    /\ Len(Before[2]) = 3
    /\ IsList(Before[2][3])
    /\ Len(After[2]) = 2

\* C8 (as stated): remove(x) deletes the first element that is equal to x as
\* a JSON value and keeps the others in order; with no such element it fails
\* (ValueError) and the file is as it was.
C8_RemoveJsonEqual ==
    (/\ op.name = "list_remove"
     /\ IsList(Before)
     /\ ~IsError(ArgNative))
    => LET j == FirstEqual(Before[2], ArgNative, JsonEq) IN
       IF j = 0 THEN err = "ValueError" /\ db = pre
       ELSE err = "none" /\ After = PyList(SeqRemoveAt(Before[2], j))

\* C8 (amended): remove(x) deletes the first element that is equal to x by
\* Python's ==, under which true equals 1 and false equals 0, and keeps the
\* others in order; with no such element it fails (ValueError) and the file
\* is as it was.
C8_RemovePyEqual ==
    (/\ op.name = "list_remove"
     /\ IsList(Before)
     /\ ~IsError(ArgNative))
    => LET j == FirstEqual(Before[2], ArgNative, PyEq) IN
       IF j = 0 THEN err = "ValueError" /\ db = pre
       ELSE err = "none" /\ After = PyList(SeqRemoveAt(Before[2], j))

\* remove(data[2]) on [[1], "x", [1]]: the first [1] goes, not the one given.
C8_Witness ==
    /\ op.name = "list_remove"
    /\ err = "none"
    /\ IsJObject(op.value)
    /\ Len(Before[2]) = 3
    /\ op.value[2] = KAddr(OpAddr, "2", "v")
    /\ After = PyList(SubSeq(Before[2], 2, 3))

\* C9: insert(i, v) gives what the insertion into a native list gives: the
\* index is clamped, the length grows by one, v is at the clamped index and
\* the elements from there on are one place to the right.
C9_ListInsert ==
    (/\ op.name = "list_insert"
     /\ IsList(Before)
     /\ ~IsError(ArgNative))
    => /\ err = "none"
       /\ After = PyList(SeqInsertAt(Before[2], ClampIndex + 1, ArgNative))

\* C10: clear() leaves a map or a list empty: its export is {} or [], its
\* size is 0, its head and tail are null, its marker, head, tail and size are
\* the only records left under its address, and a second clear() changes
\* nothing.
C10_Clear ==
    op.name = "clear"
    => /\ err = "none"
       /\ After = (IF op.h[1] = "hmap" THEN EmptyMap ELSE EmptyList)
       /\ RawGet(db, SizeAddr(OpAddr)) = Num(0)
       /\ RawGet(db, HeadAddr(OpAddr)) = Null
       /\ RawGet(db, TailAddr(OpAddr)) = Null
       /\ RawGet(db, OpAddr) = RawGet(pre, OpAddr)
       /\ Under(db, OpAddr) =
             {BKey(OpAddr), HeadAddr(OpAddr), TailAddr(OpAddr), SizeAddr(OpAddr)}
       /\ LET S == IF op.h[1] = "hmap" THEN M_clear(Cur, OpAddr) ELSE L_clear(Cur, OpAddr)
          IN  Ok(S) /\ S.db = db

C10_Witness ==
    /\ op.name = "clear"
    /\ err = "none"
    /\ \E r \in Under(pre, OpAddr) : Len(r) >= Len(OpAddr) + 6
    /\ Cardinality(Under(db, OpAddr)) = 4

\* C11: popitem() on a non-empty map removes the head entry, the oldest key
\* that is still in the map, and returns the pair of that key and the
\* snapshot of its value; the size goes down by one and the other keys keep
\* their order.  On an empty map it raises an error and changes no record.
C11_PopItem ==
    (op.name = "map_popitem" /\ IsDict(Before)) =>
        IF Before[2] = <<>>
        THEN err = "KeyError" /\ db = pre
        ELSE /\ err = "none"
             /\ ret = <<"tuple", <<Str(Before[2][1][1]), Before[2][1][2]>> >>
             /\ After = PyDict(Tail(Before[2]))
             /\ KeysOf(db, OpAddr) = Tail(KeysOf(pre, OpAddr))
             /\ RawGet(db, SizeAddr(OpAddr)) = Num(PreLen - 1)

\* popitem() returned the second key of the document, a list with it, after
\* the first key had been removed.
C11_Witness ==
    /\ op.name = "map_popitem"
    /\ err = "none"
    /\ nops = 2
    /\ OpAddr = RootAddr
    /\ ret = <<"tuple", <<Str("a"), PyList(<<Num(1), Bool(TRUE)>>)>> >>
    /\ After = EmptyMap

\* The store a call was made on, and the calls that take a key.
PreStore ==
    [db |-> pre, cache |-> NoRecords, ro |-> FALSE, open |-> <<"w">>, log |-> <<>>,
     reads |-> <<>>, err |-> "none", val |-> Null]
IsKeyedOp ==
    op.name \in {"map_put", "map_getitem", "map_get", "map_contains", "map_del", "map_pop",
                 "map_setdefault"}
NoDuplicate(seq) == \A i, j \in 1..Len(seq) : seq[i] = seq[j] => i = j

\* C12: a call given the integer key n does what the same call given the
\* decimal text of n does: put, get, contains, delete, pop and setdefault
\* leave the same records, raise the same error and return the same value;
\* and a map never holds two entries for n and its text.
C12_KeyCoercion ==
    /\ (IsKeyedOp /\ op.key[1] = "num") =>
          LET T == Call(PreStore, MethodCall([op EXCEPT !.key = Str(IntToStr(op.key[2]))])) IN
          /\ db = T.db
          /\ err = T.err
          /\ (err = "none" /\ op.name \notin {"map_put", "map_del"}) => ret = T.val
    /\ (op.name \in {"map_put", "map_setdefault"} /\ op.key[1] = "num" /\ err = "none") =>
          /\ HasRecord(db, KAddr(OpAddr, IntToStr(op.key[2]), "v"))
          /\ Range(KeysOf(db, OpAddr)) = Range(KeysOf(pre, OpAddr)) \cup {IntToStr(op.key[2])}
    /\ (IsKeyedOp /\ IsDict(Before)) => NoDuplicate(KeysOf(db, OpAddr))

\* A put with the key 7 replaced the value that the document had for "7".
C12_Witness ==
    /\ op.name = "map_put"
    /\ op.key = Num(7)
    /\ err = "none"
    /\ HasRecord(pre, KAddr(OpAddr, "7", "v"))
    /\ RawGet(pre, KAddr(OpAddr, "7", "v")) # RawGet(db, KAddr(OpAddr, "7", "v"))
    /\ KeysOf(db, OpAddr) = KeysOf(pre, OpAddr)

\* C13: a lookup or removal that fails changes no record: data[k], del
\* data[k] and pop(k) with a key the map has not, popitem() on an empty map,
\* data[i], data[i] = v and del data[i] with i outside -n <= i < n, pop() on
\* an empty list, remove(x) and index(x) with no item equal to x each raise
\* their error and leave the file as it was; pop(k, default) with a key the
\* map has not returns default and leaves the file as it was.
C13_FailingLookups ==
    /\ ( /\ op.name \in {"map_getitem", "map_del", "map_pop"}
         /\ IsDict(Before)
         /\ ~HasRecord(pre, KAddr(OpAddr, PyStr(op.key), "v")) ) =>
          /\ db = pre
          /\ IF op.name = "map_pop" /\ op.index = 1 THEN err = "none" /\ ret = op.value
             ELSE err = (IF op.name = "map_getitem" THEN referror ELSE "KeyError")
    /\ (op.name = "map_popitem" /\ Before = EmptyMap) => (err = "KeyError" /\ db = pre)
    /\ (op.name \in {"list_getitem", "list_put", "list_del"} /\ IsList(Before) /\ ~InRange) =>
          (err = "IndexError" /\ db = pre)
    /\ (op.name = "list_pop" /\ Before = EmptyList) => (err = "IndexError" /\ db = pre)
    /\ ( /\ op.name \in {"list_remove", "list_index"}
         /\ IsList(Before)
         /\ FirstEqual(Before[2], ArgNative, PyEq) = 0 ) =>
          (err = "ValueError" /\ db = pre)

\* A put at index -3 on a list of two items, which an earlier call had left
\* with two items, raised IndexError.
C13_Witness ==
    /\ op.name = "list_put"
    /\ op.index = -3
    /\ nops = 2
    /\ Before = PyList(<<Num(1), Bool(TRUE)>>)
    /\ err = "IndexError"
    /\ db = pre

\* The keys of a list of n items: "0" to "n - 1".
DenseKeys(n) == [i \in 1..n |-> IntToStr(i - 1)]

\* C20: for a list whose export is L and every integer k >= 0, l *= k
\* leaves a list whose export is L repeated k times (the empty list for
\* k = 0, L for k = 1), with the keys "0" to "n - 1" and the size n.
C20_Imul ==
    (op.name = "list_imul" /\ IsList(Before)) =>
        /\ err = "none"
        /\ After = PyList(Repeat(Before[2], op.index))
        /\ KeysOf(db, OpAddr) = DenseKeys(Len(Before[2]) * op.index)
        /\ RawGet(db, SizeAddr(OpAddr)) = Num(Len(Before[2]) * op.index)

\* The last call was made on a container inside a session.
IsSessionCall ==
    op.name \in {"map_getitem", "map_get", "map_contains", "map_pop", "map_popitem",
                 "map_setdefault", "map_put", "map_del", "list_getitem", "list_pop",
                 "list_index", "list_imul", "list_put", "list_del", "list_remove",
                 "list_insert", "list_append", "clear"}

\* The call changes the file when it is made in a read-write session.
WouldWrite == Call(PreStore, MethodCall(op)).db # pre

\* C14: in a read-only session no call changes the records of the file, and
\* every call that would write or delete a record raises the not-writable
\* error; init() on a read-only JSOP object raises it without opening the
\* file.
C14_ReadOnly ==
    /\ (mode = "ro" /\ IsSessionCall) =>
          /\ db = pre
          /\ WouldWrite => err = NotWritable
    /\ (op.name = "init" /\ op.key = Bool(TRUE)) =>
          (err = NotWritable /\ db = pre /\ opens = <<>>)

\* The last call opened a session: a with block, or export().
IsOpen == op.name \in {"enter", "export", "init_export"}

\* A format record is missing; the three are there and one is not what this
\* version reads.
MetaMissing(file) == \E a \in {NameAddr, MajorAddr, MinorAddr} : ~HasRecord(file, a)
MetaMismatch(file) ==
    /\ ~MetaMissing(file)
    /\ \/ RawGet(file, NameAddr) # Str("JSOP")
       \/ RawGet(file, MajorAddr) # Num(1)
       \/ RawGet(file, MinorAddr)[2] > FORMAT_VERSION_MINOR

C16_HandlesReleased == mode = "closed" => dbms = <<>>

\* C17: init(X) makes a new file whatever the file held: after it the file
\* holds the three format records ("JSOP", 1, 0) and the records of X and
\* no other record, which are the records that init(X) leaves on a path
\* where no file was, and export() returns X.
C17_InitFresh ==
    /\ (op.name = "init" /\ err = "none") =>
          /\ ~MetaMissing(db)
          /\ RawGet(db, NameAddr) = Str("JSOP")
          /\ RawGet(db, MajorAddr) = Num(1)
          /\ RawGet(db, MinorAddr) = Num(0)
          /\ Under(db, RootAddr) = Walk(db, RootAddr)
          /\ db = Call(Closed(NoRecords, <<>>), <<"JSOP_init", FALSE, op.value>>).db
          /\ ViewAt(db, RootAddr) = op.value
    /\ op.name = "init_export" => (err = "none" /\ ret = op.value)

\* The i-th deletion made during the iteration was of the key that had just
\* been yielded; it was of a key that had not been yielded yet; the latter,
\* and the key was not the one that followed the key just yielded.
DeletedCurrent(i) ==
    it.deleted[i][2] >= 1 /\ it.yielded[it.deleted[i][2]] = it.deleted[i][1]
DeletedAhead(i) == it.deleted[i][1] \notin {it.yielded[j] : j \in 1..it.deleted[i][2]}
DeletedKeys == {it.deleted[i][1] : i \in 1..Len(it.deleted)}
Remaining == LET Keep(k) == k \notin DeletedKeys IN SelectSeq(it.keys, Keep)

\* C18: when the only keys deleted during an iteration of a map are keys
\* that had just been yielded, the iteration raises no error and yields
\* every key the map had, once, in insertion order.
C18_DeleteCurrent ==
    (it.state # "none" /\ \A i \in 1..Len(it.deleted) : DeletedCurrent(i)) =>
        /\ err = "none"
        /\ IsPrefix(it.yielded, it.keys)
        /\ it.state = "done" => it.yielded = it.keys

\* An iteration of three keys ended after the first two of them had been
\* deleted, each when it had just been yielded.
C18_Witness ==
    /\ it.state = "done"
    /\ it.yielded = <<"a", "b", "c">>
    /\ it.deleted = << <<"a", 1>>, <<"b", 2>> >>
    /\ LinkedKeys(db, it.A) = <<"c">>
    /\ err = "none"

\* C19: when the only keys deleted during an iteration of a map are keys
\* that had not been yielded yet, the key that follows the key just yielded
\* included, the iteration raises no error, yields none of the deleted keys
\* and yields every other key once, in insertion order.
C19_DeleteUnvisited ==
    (it.state # "none" /\ \A i \in 1..Len(it.deleted) : DeletedAhead(i)) =>
        /\ err = "none"
        /\ DeletedKeys \cap Range(it.yielded) = {}
        /\ IsPrefix(it.yielded, Remaining)
        /\ it.state = "done" => it.yielded = Remaining

(***************************************************************************)
(* The claims on the calls of SpecMut.                                     *)
(***************************************************************************)
\* C21: cells() on a list can be called and iterated: the call raises no
\* error, and an iteration in which no cell is removed or put leaves the
\* list as it was (one cell for each element, each bound to its entry).
C21_Cells ==
    op.name = "list_cells" =>
        /\ err = "none"
        /\ After = Before

\* C22: prepend(v) on a list completes and puts v at index 0, ahead of the
\* elements that were there, which keep their order.
C22_Prepend ==
    op.name = "list_prepend" =>
        /\ err = "none"
        /\ After = PyList(<<op.value>> \o Before[2])

(***************************************************************************)
(* The invariants of the records of a file.                                *)
(***************************************************************************)
\* The address that a key of the dbm file encodes.
AddrOf(r) == IF r = <<"">> THEN RootAddr ELSE r

\* The addresses of the file that hold a container marker.
Markers(file) == {AddrOf(r) : r \in {r \in DOMAIN file : IsMarker(file, AddrOf(r))}}

\* The head, tail and size of the node at A are there.
HasNode(file, A) ==
    /\ HasRecord(file, HeadAddr(A))
    /\ HasRecord(file, TailAddr(A))
    /\ HasRecord(file, SizeAddr(A))

\* The keys k for which the node at A has a record k.field.
EntryKeys(file, A, field) ==
    {r[Len(A) + 2] : r \in {r \in DOMAIN file : /\ Len(r) = Len(A) + 3
                                                /\ IsPrefix(A \o <<"k">>, r)
                                                /\ r[Len(r)] = field}}

\* Linkage of the node at A: the walk of next from head visits size
\* distinct keys and ends at tail with a null next, and prev of each key
\* visited is the key visited before it, null for the first.
Linkage(file, A) ==
    LET keys == LinkedKeys(file, A)
        n == Len(keys)
    IN  /\ HasNode(file, A)
        /\ RawGet(file, SizeAddr(A)) = Num(n)
        /\ NoDuplicate(keys)
        /\ RawGet(file, HeadAddr(A)) = IF n = 0 THEN Null ELSE Str(keys[1])
        /\ RawGet(file, TailAddr(A)) = IF n = 0 THEN Null ELSE Str(keys[n])
        /\ \A i \in 1..n :
             /\ HasRecord(file, KAddr(A, keys[i], "n"))
             /\ HasRecord(file, KAddr(A, keys[i], "p"))
             /\ RawGet(file, KAddr(A, keys[i], "n")) = IF i = n THEN Null ELSE Str(keys[i + 1])
             /\ RawGet(file, KAddr(A, keys[i], "p")) = IF i = 1 THEN Null ELSE Str(keys[i - 1])

\* Size of the node at A: head, tail and size are null or 0 together, and
\* size is the number of the entries that have a value record.
SizeOk(file, A) ==
    /\ HasNode(file, A)
    /\ (RawGet(file, HeadAddr(A)) = Null) = (RawGet(file, SizeAddr(A)) = Num(0))
    /\ (RawGet(file, TailAddr(A)) = Null) = (RawGet(file, SizeAddr(A)) = Num(0))
    /\ RawGet(file, SizeAddr(A)) = Num(Cardinality(EntryKeys(file, A, "v")))

\* Density of the list at A: the keys of its entries are "0" .. "len-1", and
\* they are linked in that order.
Dense(file, A) ==
    LET n == RawGet(file, SizeAddr(A))[2] IN
    /\ LinkedKeys(file, A) = DenseKeys(n)
    /\ EntryKeys(file, A, "v") = Range(DenseKeys(n))

\* The addresses that have a marker or one of the records of a node.
NodeAddrs(file) ==
    Markers(file) \cup
    {SubSeq(r, 1, Len(r) - 1) : r \in {r \in DOMAIN file : /\ Len(r) % 3 = 1
                                                            /\ r # <<"">>
                                                            /\ r[Len(r)] \in {"n", "p", "s"}}}

\* A marker is at A if and only if the head, tail and size of A are.
MarkerOk(file, A) ==
    /\ IsMarker(file, A) => HasNode(file, A)
    /\ (\/ HasRecord(file, HeadAddr(A))
        \/ HasRecord(file, TailAddr(A))
        \/ HasRecord(file, SizeAddr(A))) => IsMarker(file, A)

\* No record is orphaned and none is missing: the records of the file are
\* the three of the format and those that the root and the linked entries
\* of the containers below it are made of.
NoOrphans(file) == {r \in DOMAIN file : ~IsMeta(r)} = Walk(file, RootAddr)

\* The containers of the file that are lists.
ListMarkers(file) == {A \in Markers(file) : RawGet(file, A)[1] = "list"}

\* C24: when every call made so far has completed, the linkage of every map
\* node of the file holds: next from head visits size distinct keys and
\* ends at tail, prev from tail visits them in reverse, prev of the head key
\* and next of the tail key are null.
C24_Linkage == err = "none" => \A A \in Markers(db) : Linkage(db, A)

\* C25: when every call made so far has completed, every map node of the
\* file has head = null iff tail = null iff size = 0, and its size is the
\* number of its entries that have a value record.
C25_Size == err = "none" => \A A \in Markers(db) : SizeOk(db, A)

\* C26: when every call made so far has completed, the keys of the entries
\* of every list are the decimal strings "0" .. "len-1", linked in that
\* order.
C26_Density == err = "none" => \A A \in ListMarkers(db) : Dense(db, A)

\* C27: when every call made so far has completed, a marker is at an
\* address if and only if the head, tail and size of the address are, and
\* every record of the file is a record of the format, the root, or a
\* record of an entry that is reached from the root.
C27_Markers ==
    err = "none" =>
        /\ \A A \in NodeAddrs(db) : MarkerOk(db, A)
        /\ NoOrphans(db)

\* The address that a put on a map, or an append or a put on a list, writes.
PutTarget ==
    CASE op.name = "map_put" -> KAddr(OpAddr, PyStr(op.key), "v")
      [] op.name = "list_append" -> KAddr(OpAddr, IntToStr(PreLen), "v")
      [] op.name = "list_put" -> KAddr(OpAddr, IntToStr(NormIndex), "v")

\* The last call was a put or an append of a JObject that is the container
\* of the call, a container around it, or a container inside the value that
\* the call writes over.
OverlapPut ==
    /\ op.name \in {"map_put", "list_append", "list_put"}
    /\ op.name = "list_put" => InRange
    /\ IsJObject(op.value)
    /\ IsPrefix(op.value[2], OpAddr) \/ IsPrefix(PutTarget, op.value[2])

\* Every invariant of the records holds.
WellFormed(file) ==
    /\ \A A \in Markers(file) : Linkage(file, A) /\ SizeOk(file, A)
    /\ \A A \in ListMarkers(file) : Dense(file, A)
    /\ \A A \in NodeAddrs(file) : MarkerOk(file, A)
    /\ NoOrphans(file)

\* C23: a put or an append of a JObject that overlaps the entry it is
\* written to completes without error, the value stored is equal to what
\* the JObject exported before the call, and the invariants of the records
\* hold after the call when they held before it.
C23_OverlapPut ==
    OverlapPut =>
        /\ err = "none"
        /\ ViewAt(db, PutTarget) = ViewAt(pre, op.value[2])
        /\ WellFormed(pre) => WellFormed(db)

\* The entry that the last call of a map deletion took out of the map.
Deleted == KAddr(OpAddr, PyStr(op.key), "v")

\* Reached: a completed deletion of the middle key of a map of three keys.
C24_Witness ==
    /\ err = "none"
    /\ op.name = "map_del"
    /\ Len(LinkedKeys(pre, OpAddr)) = 3
    /\ LinkedKeys(pre, OpAddr)[2] = PyStr(op.key)
    /\ Len(LinkedKeys(db, OpAddr)) = 2

\* Reached: a completed popitem() that took the only key of a map and left
\* head and tail null and size 0.
C25_Witness ==
    /\ err = "none"
    /\ op.name = "map_popitem"
    /\ PreLen = 1
    /\ RawGet(db, SizeAddr(OpAddr)) = Num(0)
    /\ RawGet(db, HeadAddr(OpAddr)) = Null
    /\ RawGet(db, TailAddr(OpAddr)) = Null

\* Reached: a completed deletion of an entry of a map that held a container
\* with a container inside it.
C27_Witness ==
    /\ err = "none"
    /\ op.name = "map_del"
    /\ IsMarker(pre, Deleted)
    /\ \E k \in Range(LinkedKeys(pre, Deleted)) : IsMarker(pre, KAddr(Deleted, k, "v"))
    /\ ~HasRecord(db, Deleted)

\* C28: inside a session, every entry of the cache of the wrapper is the
\* decoded record of the file at the same address, the cache has no entry
\* for an address that has no record, and a get of an address whose record
\* the last call deleted raises the KeyError that JData reports as an
\* invalid reference.
C28_CacheCoherent ==
    mode # "closed" =>
        /\ \A a \in DOMAIN cache : HasRecord(db, a) /\ cache[a] = RawGet(db, a)
        /\ \A r \in DOMAIN pre \ DOMAIN db : W_getitem(Cur, AddrOf(r)).err = "KeyError"

\* Reached: a completed deletion of a container, with records that were in
\* the cache before it and are in the file no more, and others still cached.
C28_Witness ==
    /\ mode = "rw"
    /\ err = "none"
    /\ op.name = "map_del"
    /\ IsMarker(pre, Deleted)
    /\ DOMAIN cache # {}
    /\ \A r \in DOMAIN pre \ DOMAIN db : AddrOf(r) \notin DOMAIN cache

\* C29: inside a session, a get of an address that is in the cache (it was
\* read or written in the session and not deleted since) reads nothing from
\* the dbm file.
C29_CacheHit ==
    mode # "closed" => \A a \in DOMAIN cache : W_getitem(Cur, a).reads = <<>>

\* The last call extended a list that had an export with itself.
SelfExtend ==
    /\ op.name \in {"list_extend", "list_iadd"}
    /\ op.value = op.h
    /\ Before[1] = "list"

\* C30: extend(l) and l += l on the list l itself, with export L, complete,
\* and leave l with the export L followed by L: as many appends as l was
\* long.
C30_SelfExtend ==
    SelfExtend =>
        /\ err = "none"
        /\ After = PyList(Before[2] \o Before[2])

\* Reached: a list of two items or more, inside another container, has been
\* extended with itself.
C30_Witness ==
    /\ SelfExtend
    /\ err = "none"
    /\ Len(Before[2]) >= 2
    /\ OpAddr # RootAddr

(***************************************************************************)
(* The claim on the calls of SpecMeta.                                     *)
(***************************************************************************)
\* The three records of the format are in the file as init() wrote them.
MetaIntact(file) ==
    /\ HasRecord(file, NameAddr)
    /\ HasRecord(file, MajorAddr)
    /\ HasRecord(file, MinorAddr)
    /\ RawGet(file, NameAddr) = Str(FORMAT_NAME)
    /\ RawGet(file, MajorAddr) = Num(FORMAT_VERSION_MAJOR)
    /\ RawGet(file, MinorAddr) = Num(FORMAT_VERSION_MINOR)

\* C31: whatever calls a session makes on the maps and lists of the file,
\* with the components of the addresses as keys, the three records of the
\* format are as init() wrote them, and every opening of the file succeeds.
C31_MetaOutOfReach ==
    exists =>
        /\ MetaIntact(db)
        /\ op.name = "enter" => err = "none"
        /\ JSOP_enter(Shut, FALSE).err = "none"

\* Reached: the file is open again after a session that made MaxOps calls
\* and left a map at the key "m" that has the key "format-name".
C31_Witness ==
    /\ op.name = "enter"
    /\ err = "none"
    /\ nops = MaxOps
    /\ HasRecord(db, <<"k", "m", "v", "k", "format-name", "v">>)
    /\ HasRecord(db, <<"k", "", "v">>)

====
